---- MODULE Spec2Model ----
(***************************************************************************)
(* State-machine model of the DynamicTable backend: the schema registry,   *)
(* the record (content) store, the field validator and the content query   *)
(* layer, as implemented by                                                *)
(*   backend/handlers/content_handler.go, backend/handlers/schema_handler.go*)
(*   backend/repository/content_repository.go,                             *)
(*   repository/schema_repository.go and database/database.go              *)
(*   (both in src/unnamed/part_001) and backend/models/models.go.          *)
(*                                                                         *)
(* Strings whose characters matter to the code (map keys, field names,     *)
(* values, search terms) are sequences of one-character strings, so that   *)
(* key[:1], ILIKE and ->> are computed character by character.  Table      *)
(* slugs are only ever compared for equality and are TLA+ strings.         *)
(*                                                                         *)
(* Specifications: Spec is the write and read-by-id routes from the empty  *)
(* store, one request at a time; SpecValidate is the field validator       *)
(* applied to drawn arguments; SpecList is the listing route applied to    *)
(* populated stores; SpecAll is the backward-compatible listing over       *)
(* tables of every size; SpecRace is two handlers running side by side,    *)
(* one store statement per step; SpecView is the TableView page of the     *)
(* frontend with its debounce timer and its fetches.                       *)
(* Go's int is taken to be 64 bits wide, and ORDER BY on text to compare   *)
(* byte by byte.                                                           *)
(*                                                                         *)
(* Store assumptions.  createTables declares the registry table as         *)
(* "schema" while every statement of SchemaRepository names "schemas", and *)
(* it declares a NOT NULL column contents.keys that ContentRepository      *)
(* never writes.  The model takes the store the repositories are written   *)
(* against: one registry table with UNIQUE table_slug, and a contents      *)
(* table (id, table_slug, values, created_at, updated_at) whose table_slug *)
(* is a FOREIGN KEY to the registry with ON DELETE CASCADE.                *)
(* schemas.created_at/updated_at are returned but never read by any        *)
(* modelled operation and are left out of the registry rows.               *)
(***************************************************************************)
EXTENDS Integers, Sequences, FiniteSets, TLC

VARIABLES
    schemas,       \* registry table: table_slug -> [id, tableName, fields]
    contents,      \* contents table: id -> [tableSlug, values, createdAt, updatedAt]
    nextId,        \* number of content ids gen_random_uuid() has handed out
    nextSchemaId,  \* number of schema ids gen_random_uuid() has handed out
    now,           \* the store's clock (CURRENT_TIMESTAMP)
    resp,          \* the HTTP exchange of the step just taken:
                   \* [op, status, req, body, held], held being the number of
                   \* contents rows when the request arrived
    calls,         \* handlers running side by side: caller -> the handler's
                   \* position, its local variables and its response
    view           \* the TableView page of the frontend: its React state,
                   \* its debounce timer and its fetches in flight

vars == <<schemas, contents, nextId, nextSchemaId, now, resp, calls, view>>

-----------------------------------------------------------------------------
(* Bounds *)

MaxIds == 2          \* content rows inserted in one run
MaxSchemaIds == 2    \* registry rows inserted in one run
MaxTime == 1         \* clock ticks in one run

-----------------------------------------------------------------------------
(* HTTP status codes used by the handlers (net/http) *)

StatusOK == 200
StatusCreated == 201
StatusBadRequest == 400
StatusNotFound == 404
StatusInternalServerError == 500

-----------------------------------------------------------------------------
(* Characters and strings *)

\* The printable ASCII characters in byte order, from 32 (space) to 126 (~);
\* "grave" stands for byte 96, which the module language cannot quote.
Ascii ==
    << " ", "!", "\"", "#", "$", "%", "&", "'", "(", ")", "*", "+", ",", "-",
       ".", "/", "0", "1", "2", "3", "4", "5", "6", "7", "8", "9", ":", ";",
       "<", "=", ">", "?", "@", "A", "B", "C", "D", "E", "F", "G", "H", "I",
       "J", "K", "L", "M", "N", "O", "P", "Q", "R", "S", "T", "U", "V", "W",
       "X", "Y", "Z", "[", "\\", "]", "^", "_", "grave", "a", "b", "c", "d", "e",
       "f", "g", "h", "i", "j", "k", "l", "m", "n", "o", "p", "q", "r", "s",
       "t", "u", "v", "w", "x", "y", "z", "{", "|", "}", "~" >>

\* Byte value of a character.
Code(c) == 31 + (CHOOSE i \in 1..Len(Ascii) : Ascii[i] = c)

\* strings.ToUpper and ILIKE's case folding, on ASCII.
ToUpper(c) == IF Code(c) >= 97 /\ Code(c) <= 122 THEN Ascii[Code(c) - 63] ELSE c
ToLower(c) == IF Code(c) >= 65 /\ Code(c) <= 90 THEN Ascii[Code(c) + 1] ELSE c
UpperStr(s) == [i \in 1..Len(s) |-> ToUpper(s[i])]
LowerStr(s) == [i \in 1..Len(s) |-> ToLower(s[i])]

IsDigit(c) == Code(c) >= 48 /\ Code(c) <= 57
DigitVal(c) == Code(c) - 48

\* Byte-wise comparison of two strings: TRUE iff s sorts strictly before t.
RECURSIVE StrLess(_, _)
StrLess(s, t) ==
    IF Len(t) = 0 THEN FALSE
    ELSE IF Len(s) = 0 THEN TRUE
    ELSE IF Code(Head(s)) # Code(Head(t)) THEN Code(Head(s)) < Code(Head(t))
    ELSE StrLess(Tail(s), Tail(t))

-----------------------------------------------------------------------------
(* Go int (64 bits) and strconv.Atoi.  TLC's integers are narrower than    *)
(* int, so a natural number is a little-endian sequence of 16-bit limbs    *)
(* and an int is four limbs in two's complement.                           *)

LimbBase == 2^16
SignLimb == 2^15

\* x * m + a on limbs, m and a below LimbBase; one limb longer than x, exact.
RECURSIVE NatMulAdd(_, _, _)
NatMulAdd(x, m, a) ==
    IF Len(x) = 0 THEN <<a>>
    ELSE LET v == Head(x) * m + a
         IN  <<v % LimbBase>> \o NatMulAdd(Tail(x), m, v \div LimbBase)

\* x - 1 on limbs, wrapping at the width of x.
RECURSIVE NatDec(_)
NatDec(x) ==
    IF Len(x) = 0 THEN <<>>
    ELSE IF Head(x) > 0 THEN <<Head(x) - 1>> \o Tail(x)
    ELSE <<LimbBase - 1>> \o NatDec(Tail(x))

\* x + 1 on limbs, wrapping at the width of x.
RECURSIVE NatInc(_)
NatInc(x) ==
    IF Len(x) = 0 THEN <<>>
    ELSE IF Head(x) < LimbBase - 1 THEN <<Head(x) + 1>> \o Tail(x)
    ELSE <<0>> \o NatInc(Tail(x))

NatIsZero(x) == \A i \in 1..Len(x) : x[i] = 0

\* x as a TLC integer when it fits one limb, -1 otherwise.
NatSmall(x) == IF \A i \in 2..Len(x) : x[i] = 0 THEN x[1] ELSE -1

I64(n) == <<n, 0, 0, 0>>
I64IsNeg(x) == x[4] >= SignLimb
I64Neg(x) == NatInc([i \in 1..4 |-> LimbBase - 1 - x[i]])
\* x > n and x < n for an int x and a small non-negative n
I64Gt(x, n) == ~I64IsNeg(x) /\ (NatSmall(x) = -1 \/ NatSmall(x) > n)
I64Lt(x, n) == I64IsNeg(x) \/ (NatSmall(x) # -1 /\ NatSmall(x) < n)
\* x - 1 and x * m as Go computes them: modulo 2^64
I64Dec(x) == NatDec(x)
I64Mul(x, m) == SubSeq(NatMulAdd(x, m, 0), 1, 4)

\* The magnitude of a digit string: over is TRUE once it exceeds 64 bits.
RECURSIVE AtoiMag(_, _)
AtoiMag(digits, acc) ==
    IF Len(digits) = 0 THEN acc
    ELSE LET v == NatMulAdd(acc.mag, 10, DigitVal(Head(digits)))
         IN  AtoiMag(Tail(digits),
                     [over |-> acc.over \/ v[5] # 0, mag |-> SubSeq(v, 1, 4)])

\* strconv.Atoi: an optional sign and decimal digits; err is TRUE on a syntax
\* error (no digits, a character that is no digit) and on a value out of the
\* range of int.
Atoi(str) ==
    LET signed == Len(str) >= 1 /\ str[1] \in {"+", "-"}
        neg    == Len(str) >= 1 /\ str[1] = "-"
        digits == IF signed THEN Tail(str) ELSE str
        m      == AtoiMag(digits, [over |-> FALSE, mag |-> I64(0)])
        range  == \/ m.over
                  \/ (~neg /\ m.mag[4] >= SignLimb)
                  \/ (neg /\ m.mag[4] >= SignLimb /\ m.mag # <<0, 0, 0, SignLimb>>)
    IN  IF Len(digits) = 0 \/ \E i \in 1..Len(digits) : ~IsDigit(digits[i])
        THEN [err |-> TRUE, v |-> I64(0)]
        ELSE IF range THEN [err |-> TRUE, v |-> I64(0)]
        ELSE [err |-> FALSE, v |-> IF neg THEN I64Neg(m.mag) ELSE m.mag]

-----------------------------------------------------------------------------
(* models.Field, models.RelationConfig *)

NoRelation == [set |-> FALSE, relatedTable |-> "", relatedField |-> <<>>]

\* Field.Options, a []string: nil, or a list that may be empty.
NoOptions == [nil |-> TRUE, list |-> <<>>]
Options(list) == [nil |-> FALSE, list |-> list]

Field(name, required) ==
    [name |-> name, label |-> name, dataType |-> "text",
     dataValidation |-> <<>>, required |-> required, options |-> NoOptions,
     relationConfig |-> NoRelation]

\* A field of data type "options" with a validation pattern and its list of
\* options.
OptionsField(name, required, dataValidation, options) ==
    [name |-> name, label |-> name, dataType |-> "options",
     dataValidation |-> dataValidation, required |-> required,
     options |-> options, relationConfig |-> NoRelation]

\* A field of data type "relation" with its RelationConfig.
RelationField(name, relatedTable, relatedField) ==
    [name |-> name, label |-> name, dataType |-> "relation",
     dataValidation |-> <<>>, required |-> FALSE, options |-> NoOptions,
     relationConfig |-> [set |-> TRUE, relatedTable |-> relatedTable,
                         relatedField |-> relatedField]]

-----------------------------------------------------------------------------
(* JSON values: interface{} as encoding/json decodes it.  A string, null or *)
(* an object; s is the string's characters, o the object's members, a set *)
(* of <<key, value>> pairs.                                                *)

JString(chars) == [t |-> "string", s |-> chars, o |-> {}]
JNull == [t |-> "null", s |-> <<>>, o |-> {}]
JObject(members) == [t |-> "object", s |-> <<>>, o |-> members]

-----------------------------------------------------------------------------
(* encoding/json and the JSONB column *)

\* Mutant of MarshalValues: the reserved "_" keys are not written.
MarshalValuesNoReserved(values) ==
    {<<k, values[k]>> : k \in {j \in DOMAIN values : Len(j) = 0 \/ j[1] # "_"}}

\* json.Marshal of a map[string]interface{}: the members of the JSON object,
\* one <<key, value>> pair per map entry, in sorted key order.  The JSONB
\* column keeps the object as its set of members.
MarshalValues(values) == {<<k, values[k]>> : k \in DOMAIN values}

\* json.Unmarshal of a JSONB object into a map[string]interface{}.
UnmarshalValues(doc) ==
    [k \in {m[1] : m \in doc} |-> (CHOOSE m \in doc : m[1] = k)[2]]

\* ContentRepository.scanToContent
scanToContent(id, row) ==
    [id |-> id, tableSlug |-> row.tableSlug,
     values |-> UnmarshalValues(row.values),
     createdAt |-> row.createdAt, updatedAt |-> row.updatedAt]

\* json.Marshal of a []models.Field: one JSON object per field.  name,
\* label, dataType and required are always written; the members tagged
\* omitempty are left out when empty: dataValidation when it is "", options
\* when the list has no element (nil or not), relationConfig when it is nil.
MarshalFields(fields) ==
    [i \in 1..Len(fields) |->
        [name |-> fields[i].name, label |-> fields[i].label,
         dataType |-> fields[i].dataType, required |-> fields[i].required,
         dataValidation |-> [omitted |-> fields[i].dataValidation = <<>>,
                             v |-> fields[i].dataValidation],
         options |-> [omitted |-> Len(fields[i].options.list) = 0,
                      v |-> fields[i].options.list],
         relationConfig |-> [omitted |-> ~fields[i].relationConfig.set,
                             v |-> fields[i].relationConfig]]]

\* json.Unmarshal into a []models.Field: a member the object does not hold
\* leaves the zero value.
UnmarshalFields(doc) ==
    [i \in 1..Len(doc) |->
        [name |-> doc[i].name, label |-> doc[i].label,
         dataType |-> doc[i].dataType,
         dataValidation |-> IF doc[i].dataValidation.omitted THEN <<>>
                            ELSE doc[i].dataValidation.v,
         required |-> doc[i].required,
         options |-> IF doc[i].options.omitted THEN NoOptions
                     ELSE Options(doc[i].options.v),
         relationConfig |-> IF doc[i].relationConfig.omitted THEN NoRelation
                            ELSE doc[i].relationConfig.v]]

\* SchemaRepository.scanToSchema
scanToSchema(slug, row) ==
    [id |-> row.id, tableSlug |-> slug, tableName |-> row.tableName,
     fields |-> UnmarshalFields(row.fields)]

-----------------------------------------------------------------------------
(* Field validator *)

\* key[:1]: the first byte of key; slicing the empty string panics.
FirstByte(key) == IF Len(key) >= 1 THEN SubSeq(key, 1, 1) ELSE <<"panic">>

FieldNamed(fields, key) == \E i \in 1..Len(fields) : fields[i].name = key

\* ContentHandler.validateContentAgainstSchema.  The second loop ranges over
\* a Go map, whose iteration order is unspecified: the result is the set of
\* outcomes the loop can produce.  kind is "ok" (nil error), "missing"
\* (required field '%s' is missing), "unknown" (field '%s' is not defined in
\* schema) or "panic" (slice bounds out of range in key[:1]).
validateContentAgainstSchema(values, fields) ==
    LET missing == {i \in 1..Len(fields) :
                        fields[i].required /\ fields[i].name \notin DOMAIN values}
        first   == CHOOSE i \in missing : \A j \in missing : i <= j
        stops   == {k \in DOMAIN values :
                        /\ ~FieldNamed(fields, k)
                        /\ (Len(k) = 0 \/ FirstByte(k) # <<"_">>)}
    IN  IF missing # {}
        THEN {[kind |-> "missing", name |-> fields[first].name]}
        ELSE IF stops = {}
        THEN {[kind |-> "ok", name |-> <<>>]}
        ELSE {[kind |-> IF Len(k) = 0 THEN "panic" ELSE "unknown", name |-> k] :
                k \in stops}

-----------------------------------------------------------------------------
(* Store: database/database.go createTables *)

\* Mutant of gen_random_uuid: the smallest identifier no current row has.
SmallestFreeId(n, used) ==
    CHOOSE i \in 1..(n + 1) : i \notin used /\ \A j \in 1..(i - 1) : j \in used

\* id UUID PRIMARY KEY DEFAULT gen_random_uuid(): an identifier no row has or
\* ever had.  n is the number of identifiers handed out so far, used the
\* identifiers of the table's current rows.
gen_random_uuid(n, used) == n + 1

\* Mutant of OnDeleteCascade: the foreign key without ON DELETE CASCADE.
NoCascade(rows, tableSlug) == rows

\* FOREIGN KEY (table_slug) REFERENCES schema(table_slug) ON DELETE CASCADE:
\* the contents rows left after the registry row of tableSlug is deleted.
OnDeleteCascade(rows, tableSlug) ==
    [id \in {i \in DOMAIN rows : rows[i].tableSlug # tableSlug} |-> rows[id]]

\* A contents table declared without the REFERENCES clause: every INSERT
\* passes.
NoForeignKey(registry, tableSlug) == TRUE

\* The same foreign key at INSERT time: the referenced registry row exists.
ForeignKeyHolds(registry, tableSlug) == tableSlug \in DOMAIN registry

\* table_slug VARCHAR(255) UNIQUE NOT NULL
UniqueSlugHolds(registry, tableSlug) == tableSlug \notin DOMAIN registry

-----------------------------------------------------------------------------
(* repository.ContentRepository *)

NoContent ==
    [id |-> 0, tableSlug |-> "", values |-> <<>>, createdAt |-> 0, updatedAt |-> 0]

\* ContentRepository.CreateContent: INSERT INTO contents (table_slug, values)
\* ... RETURNING; created_at and updated_at both DEFAULT CURRENT_TIMESTAMP.
ContentRepository_CreateContent(registry, rows, n, tableSlug, values, t) ==
    IF ~ForeignKeyHolds(registry, tableSlug)
    THEN [err |-> "failed to create content", content |-> NoContent,
          rows |-> rows, n |-> n]
    ELSE LET id  == gen_random_uuid(n, DOMAIN rows)
             row == [tableSlug |-> tableSlug, values |-> MarshalValues(values),
                     createdAt |-> t, updatedAt |-> t]
         IN  [err |-> "", content |-> scanToContent(id, row),
              rows |-> [i \in DOMAIN rows \cup {id} |->
                            IF i = id THEN row ELSE rows[i]],
              n |-> id]

\* ContentRepository.GetContentByID: nil, nil on sql.ErrNoRows.
ContentRepository_GetContentByID(rows, id) ==
    IF id \in DOMAIN rows
    THEN [nil |-> FALSE, content |-> scanToContent(id, rows[id])]
    ELSE [nil |-> TRUE, content |-> NoContent]

\* Mutant of ContentRepository_UpdateContent: the new values are merged into
\* the old ones (values = values || $1), old keys survive.
UpdateContentMerging(rows, id, values, t) ==
    IF id \notin DOMAIN rows
    THEN [nil |-> TRUE, content |-> NoContent, rows |-> rows]
    ELSE LET row == [rows[id] EXCEPT
                        !.values = MarshalValues(values @@ UnmarshalValues(@)),
                        !.updatedAt = t]
         IN  [nil |-> FALSE, content |-> scanToContent(id, row),
              rows |-> [rows EXCEPT ![id] = row]]

\* ContentRepository.UpdateContent: UPDATE contents SET values = $1,
\* updated_at = CURRENT_TIMESTAMP WHERE id = $2 RETURNING; nil, nil when no
\* row has the id.
ContentRepository_UpdateContent(rows, id, values, t) ==
    IF id \notin DOMAIN rows
    THEN [nil |-> TRUE, content |-> NoContent, rows |-> rows]
    ELSE LET row == [rows[id] EXCEPT !.values = MarshalValues(values),
                                     !.updatedAt = t]
         IN  [nil |-> FALSE, content |-> scanToContent(id, row),
              rows |-> [rows EXCEPT ![id] = row]]

\* ContentRepository.DeleteContent: DELETE FROM contents WHERE id = $1;
\* an error "content not found" when no row was affected.
ContentRepository_DeleteContent(rows, id) ==
    IF id \notin DOMAIN rows
    THEN [err |-> "content not found", rows |-> rows]
    ELSE [err |-> "", rows |-> [i \in DOMAIN rows \ {id} |-> rows[i]]]

-----------------------------------------------------------------------------
(* repository.SchemaRepository *)

NoSchema == [id |-> 0, tableSlug |-> "", tableName |-> "", fields |-> <<>>]

\* SchemaRepository.CreateSchema: INSERT INTO schemas ... RETURNING.
SchemaRepository_CreateSchema(registry, n, tableSlug, tableName, fields) ==
    IF ~UniqueSlugHolds(registry, tableSlug)
    THEN [err |-> "failed to create schema", schema |-> NoSchema,
          registry |-> registry, n |-> n]
    ELSE LET used == {registry[s].id : s \in DOMAIN registry}
             row == [id |-> gen_random_uuid(n, used),
                     tableName |-> tableName, fields |-> MarshalFields(fields)]
         IN  [err |-> "", schema |-> scanToSchema(tableSlug, row),
              registry |-> [s \in DOMAIN registry \cup {tableSlug} |->
                                IF s = tableSlug THEN row ELSE registry[s]],
              n |-> row.id]

\* SchemaRepository.GetSchemaBySlug: nil, nil on sql.ErrNoRows.
SchemaRepository_GetSchemaBySlug(registry, tableSlug) ==
    IF tableSlug \in DOMAIN registry
    THEN [nil |-> FALSE, schema |-> scanToSchema(tableSlug, registry[tableSlug])]
    ELSE [nil |-> TRUE, schema |-> NoSchema]

\* SchemaRepository.UpdateSchema: UPDATE schemas SET table_name = $1,
\* fields = $2 ... WHERE table_slug = $3 RETURNING; nil, nil when no row.
SchemaRepository_UpdateSchema(registry, tableSlug, tableName, fields) ==
    IF tableSlug \notin DOMAIN registry
    THEN [nil |-> TRUE, schema |-> NoSchema, registry |-> registry]
    ELSE LET row == [registry[tableSlug] EXCEPT !.tableName = tableName,
                                                !.fields = MarshalFields(fields)]
         IN  [nil |-> FALSE, schema |-> scanToSchema(tableSlug, row),
              registry |-> [registry EXCEPT ![tableSlug] = row]]

\* SchemaRepository.DeleteSchema: DELETE FROM schemas WHERE table_slug = $1;
\* the contents rows of the slug go with it (ON DELETE CASCADE); an error
\* "schema not found" when no row was affected.
SchemaRepository_DeleteSchema(registry, rows, tableSlug) ==
    IF tableSlug \notin DOMAIN registry
    THEN [err |-> "schema not found", registry |-> registry, rows |-> rows]
    ELSE [err |-> "",
          registry |-> [s \in DOMAIN registry \ {tableSlug} |-> registry[s]],
          rows |-> OnDeleteCascade(rows, tableSlug)]

-----------------------------------------------------------------------------
(* HTTP layer: gin *)

\* What a handler leaves behind: the response and the store after it.
Result(status, body, registry, rows, n, sn) ==
    [status |-> status, body |-> body, schemas |-> registry, contents |-> rows,
     nextId |-> n, nextSchemaId |-> sn]

\* c.JSON(status, gin.H{"error": msg})
ErrorBody(msg) == [error |-> msg]

\* routes.SetupRoutes builds the engine with gin.Default(), whose Recovery
\* middleware turns a panic in a handler into a 500 response.
Recovered(registry, rows, n, sn) ==
    Result(StatusInternalServerError, ErrorBody("panic"), registry, rows, n, sn)

-----------------------------------------------------------------------------
(* handlers.ContentHandler *)

\* ContentHandler.CreateContent.  req is the JSON body: req.bound is FALSE
\* when ShouldBindJSON fails (no "values" member).
ContentHandler_CreateContent(registry, rows, n, sn, tableSlug, req, t) ==
    LET found == SchemaRepository_GetSchemaBySlug(registry, tableSlug)
        same(status, msg) ==
            Result(status, ErrorBody(msg), registry, rows, n, sn)
    IN  IF tableSlug = ""
        THEN {same(StatusBadRequest, "table slug is required")}
        ELSE IF found.nil
        THEN {same(StatusNotFound, "table not found")}
        ELSE IF ~req.bound
        THEN {same(StatusBadRequest, "binding")}
        ELSE { IF v.kind = "panic" THEN Recovered(registry, rows, n, sn)
               ELSE IF v.kind # "ok" THEN same(StatusBadRequest, v.kind)
               ELSE LET c == ContentRepository_CreateContent(
                                 registry, rows, n, tableSlug, req.values, t)
                    IN  IF c.err # ""
                        THEN same(StatusInternalServerError, c.err)
                        ELSE Result(StatusCreated, c.content, registry,
                                    c.rows, c.n, sn)
               : v \in validateContentAgainstSchema(req.values,
                                                    found.schema.fields) }

\* ContentHandler.GetContent
ContentHandler_GetContent(registry, rows, n, sn, id) ==
    LET got == ContentRepository_GetContentByID(rows, id)
    IN  IF got.nil
        THEN Result(StatusNotFound, ErrorBody("content not found"),
                    registry, rows, n, sn)
        ELSE Result(StatusOK, got.content, registry, rows, n, sn)

\* Mutant of ContentHandler_UpdateContent: the row is written before the
\* validator is consulted.
UpdateContentWriteFirst(registry, rows, n, sn, id, req, t) ==
    LET existing == ContentRepository_GetContentByID(rows, id)
        found == SchemaRepository_GetSchemaBySlug(registry,
                                                  existing.content.tableSlug)
        same(status, msg) ==
            Result(status, ErrorBody(msg), registry, rows, n, sn)
    IN  IF existing.nil
        THEN {same(StatusNotFound, "content not found")}
        ELSE IF ~req.bound
        THEN {same(StatusBadRequest, "binding")}
        ELSE IF found.nil
        THEN {Recovered(registry, rows, n, sn)}
        ELSE LET u == ContentRepository_UpdateContent(rows, id, req.values, t)
             IN  { IF v.kind = "panic" THEN Recovered(registry, rows, n, sn)
                   ELSE IF v.kind # "ok"
                   THEN Result(StatusBadRequest, ErrorBody(v.kind), registry,
                               u.rows, n, sn)
                   ELSE Result(StatusOK, u.content, registry, u.rows, n, sn)
                   : v \in validateContentAgainstSchema(req.values,
                                                        found.schema.fields) }

\* ContentHandler.UpdateContent.  schema.Fields is read without a nil check:
\* a missing schema is a nil-pointer panic.  A nil content from the
\* repository is answered with c.JSON(200, nil).
ContentHandler_UpdateContent(registry, rows, n, sn, id, req, t) ==
    LET existing == ContentRepository_GetContentByID(rows, id)
        found == SchemaRepository_GetSchemaBySlug(registry,
                                                  existing.content.tableSlug)
        same(status, msg) ==
            Result(status, ErrorBody(msg), registry, rows, n, sn)
    IN  IF existing.nil
        THEN {same(StatusNotFound, "content not found")}
        ELSE IF ~req.bound
        THEN {same(StatusBadRequest, "binding")}
        ELSE IF found.nil
        THEN {Recovered(registry, rows, n, sn)}
        ELSE { IF v.kind = "panic" THEN Recovered(registry, rows, n, sn)
               ELSE IF v.kind # "ok" THEN same(StatusBadRequest, v.kind)
               ELSE LET u == ContentRepository_UpdateContent(
                                 rows, id, req.values, t)
                    IN  IF u.nil
                        THEN Result(StatusOK, [null |-> TRUE], registry,
                                    u.rows, n, sn)
                        ELSE Result(StatusOK, u.content, registry, u.rows, n, sn)
               : v \in validateContentAgainstSchema(req.values,
                                                    found.schema.fields) }

\* ContentHandler.DeleteContent: every repository error, "content not found"
\* included, is answered with 500.
ContentHandler_DeleteContent(registry, rows, n, sn, id) ==
    LET d == ContentRepository_DeleteContent(rows, id)
    IN  IF d.err # ""
        THEN Result(StatusInternalServerError, ErrorBody(d.err),
                    registry, rows, n, sn)
        ELSE Result(StatusOK, [message |-> "content deleted successfully"],
                    registry, d.rows, n, sn)

-----------------------------------------------------------------------------
(* handlers.SchemaHandler *)

\* The field-list checks of SchemaHandler.CreateSchema and UpdateSchema:
\* the error of the first offending field, "" when the list is accepted.
RECURSIVE FieldNamesError(_, _)
FieldNamesError(fields, seen) ==
    IF Len(fields) = 0 THEN ""
    ELSE IF Head(fields).name = <<>> THEN "field name cannot be empty"
    ELSE IF Head(fields).name \in seen
    THEN "duplicate field names are not allowed"
    ELSE FieldNamesError(Tail(fields), seen \cup {Head(fields).name})

\* The field-list checks without the fieldNames map: a repeated name is
\* accepted.
FieldListErrorRepeatsAllowed(fields) ==
    IF Len(fields) = 0 THEN "at least one field is required"
    ELSE IF \E i \in 1..Len(fields) : fields[i].name = <<>>
    THEN "field name cannot be empty"
    ELSE ""

FieldListError(fields) ==
    IF Len(fields) = 0 THEN "at least one field is required"
    ELSE FieldNamesError(fields, {})

\* SchemaHandler.CreateSchema.  req.bound is FALSE when ShouldBindJSON fails.
SchemaHandler_CreateSchema(registry, rows, n, sn, req) ==
    LET same(status, msg) ==
            Result(status, ErrorBody(msg), registry, rows, n, sn)
    IN  IF ~req.bound THEN same(StatusBadRequest, "binding")
        ELSE IF FieldListError(req.fields) # ""
        THEN same(StatusBadRequest, FieldListError(req.fields))
        ELSE LET c == SchemaRepository_CreateSchema(
                          registry, sn, req.tableSlug, req.tableName, req.fields)
             IN  IF c.err # "" THEN same(StatusInternalServerError, c.err)
                 ELSE Result(StatusCreated, c.schema, c.registry, rows, n, c.n)

\* SchemaHandler.GetSchema
SchemaHandler_GetSchema(registry, rows, n, sn, tableSlug) ==
    LET found == SchemaRepository_GetSchemaBySlug(registry, tableSlug)
    IN  IF tableSlug = ""
        THEN Result(StatusBadRequest, ErrorBody("table slug is required"),
                    registry, rows, n, sn)
        ELSE IF found.nil
        THEN Result(StatusNotFound, ErrorBody("schema not found"),
                    registry, rows, n, sn)
        ELSE Result(StatusOK, found.schema, registry, rows, n, sn)

\* SchemaHandler.UpdateSchema
SchemaHandler_UpdateSchema(registry, rows, n, sn, tableSlug, req) ==
    LET same(status, msg) ==
            Result(status, ErrorBody(msg), registry, rows, n, sn)
    IN  IF tableSlug = "" THEN same(StatusBadRequest, "table slug is required")
        ELSE IF ~req.bound THEN same(StatusBadRequest, "binding")
        ELSE IF FieldListError(req.fields) # ""
        THEN same(StatusBadRequest, FieldListError(req.fields))
        ELSE LET u == SchemaRepository_UpdateSchema(
                          registry, tableSlug, req.tableName, req.fields)
             IN  IF u.nil THEN same(StatusNotFound, "schema not found")
                 ELSE Result(StatusOK, u.schema, u.registry, rows, n, sn)

\* SchemaHandler.DeleteSchema: every repository error, "schema not found"
\* included, is answered with 500.
SchemaHandler_DeleteSchema(registry, rows, n, sn, tableSlug) ==
    LET d == SchemaRepository_DeleteSchema(registry, rows, tableSlug)
    IN  IF tableSlug = ""
        THEN Result(StatusBadRequest, ErrorBody("table slug is required"),
                    registry, rows, n, sn)
        ELSE IF d.err # ""
        THEN Result(StatusInternalServerError, ErrorBody(d.err),
                    registry, rows, n, sn)
        ELSE Result(StatusOK, [message |-> "schema deleted successfully"],
                    d.registry, d.rows, n, sn)

-----------------------------------------------------------------------------
(* The content query layer: what the statements of                         *)
(* ContentRepository.GetContentsByTableSlug compute in the store           *)

\* A JSON string's characters as jsonb prints them: " and \ escaped.
RECURSIVE JsonbEscape(_)
JsonbEscape(chars) ==
    IF Len(chars) = 0 THEN <<>>
    ELSE (IF Head(chars) \in {"\"", "\\"} THEN <<"\\", Head(chars)>>
          ELSE <<Head(chars)>>) \o JsonbEscape(Tail(chars))

\* jsonb keeps the members of an object sorted by key length, then bytes.
JsonbKeyLess(j, k) == Len(j) < Len(k) \/ (Len(j) = Len(k) /\ StrLess(j, k))

\* values::text: the text jsonb prints for an object, {"k": v, "k2": v2}.
RECURSIVE JsonbText(_)
RECURSIVE JsonbMembersText(_)
JsonbValueText(v) ==
    CASE v.t = "string" -> <<"\"">> \o JsonbEscape(v.s) \o <<"\"">>
      [] v.t = "null"   -> <<"n", "u", "l", "l">>
      [] v.t = "object" -> JsonbText(v.o)

JsonbMembersText(doc) ==
    IF doc = {} THEN <<>>
    ELSE LET m    == CHOOSE x \in doc :
                         \A y \in doc \ {x} : JsonbKeyLess(x[1], y[1])
             rest == doc \ {m}
         IN  <<"\"">> \o JsonbEscape(m[1]) \o <<"\"", ":", " ">>
                 \o JsonbValueText(m[2])
                 \o (IF rest = {} THEN <<>>
                     ELSE <<",", " ">> \o JsonbMembersText(rest))

JsonbText(doc) == <<"{">> \o JsonbMembersText(doc) \o <<"}">>

\* values->>key: the member's value as text; SQL NULL when the object has no
\* such member or the member is JSON null.
JsonbGetText(doc, key) ==
    IF \E m \in doc : m[1] = key /\ m[2].t # "null"
    THEN LET v == (CHOOSE m \in doc : m[1] = key)[2]
         IN  [null |-> FALSE,
              text |-> IF v.t = "string" THEN v.s ELSE JsonbValueText(v)]
    ELSE [null |-> TRUE, text |-> <<>>]

\* text LIKE pattern: % is any run of characters, _ any one character and \
\* makes the next pattern character literal.  (A pattern ending in a lone \
\* is an error in the store; "%" + search + "%" never ends that way.)
RECURSIVE LikeMatch(_, _)
LikeMatch(text, pattern) ==
    IF Len(pattern) = 0 THEN Len(text) = 0
    ELSE IF Head(pattern) = "%"
    THEN \/ LikeMatch(text, Tail(pattern))
         \/ (Len(text) > 0 /\ LikeMatch(Tail(text), pattern))
    ELSE IF Head(pattern) = "_"
    THEN Len(text) > 0 /\ LikeMatch(Tail(text), Tail(pattern))
    ELSE IF Head(pattern) = "\\"
    THEN /\ Len(pattern) >= 2
         /\ Len(text) > 0
         /\ Head(text) = pattern[2]
         /\ LikeMatch(Tail(text), Tail(Tail(pattern)))
    ELSE /\ Len(text) > 0
         /\ Head(text) = Head(pattern)
         /\ LikeMatch(Tail(text), Tail(pattern))

\* text ILIKE pattern: LIKE on the case-folded text and pattern.
ILike(text, pattern) == LikeMatch(LowerStr(text), LowerStr(pattern))

\* strings.Split(s, sep) for a one-character sep.
RECURSIVE Split(_, _, _)
Split(s, sep, piece) ==
    IF Len(s) = 0 THEN <<piece>>
    ELSE IF Head(s) = sep THEN <<piece>> \o Split(Tail(s), sep, <<>>)
    ELSE Split(Tail(s), sep, Append(piece, Head(s)))

\* strings.Contains(pair, "=")
Contains(s, c) == \E i \in 1..Len(s) : s[i] = c

\* strings.SplitN(pair, "=", 2) of a pair that contains "=".
SplitN2(pair) ==
    LET i == CHOOSE j \in 1..Len(pair) :
                 pair[j] = "=" /\ \A h \in 1..(j - 1) : pair[h] # "="
    IN  <<SubSeq(pair, 1, i - 1), SubSeq(pair, i + 1, Len(pair))>>

\* The filters loop of ContentHandler.GetContents: params.Filters after the
\* pairs were stored in order, a later pair replacing an earlier one with the
\* same field name.
RECURSIVE StoreFilterPairs(_, _)
StoreFilterPairs(pairs, filters) ==
    IF Len(pairs) = 0 THEN filters
    ELSE IF Contains(Head(pairs), "=")
    THEN LET parts == SplitN2(Head(pairs))
         IN  StoreFilterPairs(Tail(pairs), (parts[1] :> parts[2]) @@ filters)
    ELSE StoreFilterPairs(Tail(pairs), filters)

ParseFilters(filtersStr) ==
    IF filtersStr = <<>> THEN <<>>
    ELSE StoreFilterPairs(Split(filtersStr, ",", <<>>), <<>>)

\* The filter conditions without the test of line 92: an entry with an empty
\* value is compared like any other.
WhereHoldsEmptyValues(row, tableSlug, search, filters) ==
    /\ row.tableSlug = tableSlug
    /\ search # <<>>
        => ILike(JsonbText(row.values), <<"%">> \o search \o <<"%">>)
    /\ \A f \in DOMAIN filters :
          LET got == JsonbGetText(row.values, f)
          IN  ~got.null /\ got.text = filters[f]

\* The search and filter conditions appended to baseQuery, for one row.
WhereHolds(row, tableSlug, search, filters) ==
    /\ row.tableSlug = tableSlug
    /\ search # <<>>
        => ILike(JsonbText(row.values), <<"%">> \o search \o <<"%">>)
    /\ \A f \in DOMAIN filters :
          filters[f] # <<>>
          => LET got == JsonbGetText(row.values, f)
             IN  ~got.null /\ got.text = filters[f]

created_at == <<"c", "r", "e", "a", "t", "e", "d", "_", "a", "t">>
updated_at == <<"u", "p", "d", "a", "t", "e", "d", "_", "a", "t">>

\* orderBy: the column or JSON member the rows are ordered by, and the
\* direction.  sortBy is written into the statement between single quotes;
\* quoted is FALSE when sortBy itself holds a quote and so ends the literal.
OrderBy(sortBy, sortDir) ==
    LET desc == UpperStr(sortDir) = <<"D", "E", "S", "C">>
    IN  IF sortBy = <<>>
        THEN [column |-> TRUE, name |-> created_at, desc |-> TRUE, quoted |-> TRUE]
        ELSE IF sortBy \in {created_at, updated_at}
        THEN [column |-> TRUE, name |-> sortBy, desc |-> desc, quoted |-> TRUE]
        ELSE [column |-> FALSE, name |-> sortBy, desc |-> desc,
              quoted |-> ~Contains(sortBy, "'")]

\* The value a row is ordered by.
SortKey(row, orderBy) ==
    IF orderBy.column
    THEN [null |-> FALSE,
          n |-> IF orderBy.name = created_at THEN row.createdAt
                ELSE row.updatedAt,
          text |-> <<>>]
    ELSE LET got == JsonbGetText(row.values, orderBy.name)
         IN  [null |-> got.null, n |-> 0, text |-> got.text]

\* ORDER BY: TRUE iff a row with key j must come before a row with key k.
\* ASC puts NULLs last, DESC first; text is compared byte by byte.
SortsBefore(j, k, desc) ==
    LET less(x, y) ==
            \/ ~x.null /\ y.null
            \/ /\ ~x.null
               /\ ~y.null
               /\ (x.n < y.n \/ (x.n = y.n /\ StrLess(x.text, y.text)))
    IN  IF desc THEN less(k, j) ELSE less(j, k)

\* The orders in which the store may return the rows ids: every sequence
\* that respects SortsBefore; rows with equal keys come in any order.
RECURSIVE Orderings(_, _, _)
Orderings(ids, keys, desc) ==
    IF ids = {} THEN {<<>>}
    ELSE UNION { {<<m>> \o rest : rest \in Orderings(ids \ {m}, keys, desc)} :
                 m \in {x \in ids :
                          \A y \in ids : ~SortsBefore(keys[y], keys[x], desc)} }

\* LIMIT pageSize OFFSET offset of an ordered result; offset is not negative.
LimitOffset(ordered, pageSize, offset) ==
    LET skip == NatSmall(offset)
        last == IF skip + pageSize < Len(ordered) THEN skip + pageSize
                ELSE Len(ordered)
    IN  IF skip = -1 \/ skip >= Len(ordered) THEN <<>>
        ELSE SubSeq(ordered, skip + 1, last)

\* The text of a statement, as the pieces fmt.Sprintf joins: text the code
\* holds as a constant, the number of a $n placeholder, and a string of the
\* request written into the text.
Text(lit) == [lit |-> lit, placeholder |-> 0, spliced |-> <<>>]
Placeholder(n) == [lit |-> "$", placeholder |-> n, spliced |-> <<>>]
Spliced(chars) == [lit |-> "", placeholder |-> 0, spliced |-> chars]

\* selectQuery of GetContentsByTableSlug: baseQuery with one ILIKE condition
\* for a search and one values->>$n = $m condition per filter with a
\* non-empty value, then ORDER BY orderBy and LIMIT / OFFSET.  The search
\* pattern, the filter names and values, pageSize and offset are arguments
\* of the placeholders; sortBy is written into orderBy.
selectQuery(params) ==
    LET used == {f \in DOMAIN params.filters : params.filters[f] # <<>>}
        first == IF params.search # <<>> THEN 3 ELSE 2
        argIndex == first + 2 * Cardinality(used)
        searchQuery ==
            IF params.search # <<>>
            THEN <<Text(" AND ( values::text ILIKE "), Placeholder(2),
                   Text(" )")>>
            ELSE <<>>
        filterQuery[k \in 0..Cardinality(used)] ==
            IF k = 0 THEN <<>>
            ELSE filterQuery[k - 1]
                   \o <<Text(" AND values->>"), Placeholder(first + 2 * (k - 1)),
                        Text(" = "), Placeholder(first + 2 * (k - 1) + 1)>>
        sortDir == IF UpperStr(params.sortDir) = <<"D", "E", "S", "C">>
                   THEN Text("DESC") ELSE Text("ASC")
        orderBy ==
            IF params.sortBy = <<>> THEN <<Text("created_at DESC")>>
            ELSE IF params.sortBy = created_at
            THEN <<Text("created_at"), Text(" "), sortDir>>
            ELSE IF params.sortBy = updated_at
            THEN <<Text("updated_at"), Text(" "), sortDir>>
            ELSE <<Text("values->>'"), Spliced(params.sortBy), Text("' "),
                   sortDir>>
    IN  <<Text("SELECT id, table_slug, values, created_at, updated_at "),
          Text("FROM contents WHERE table_slug = "), Placeholder(1)>>
          \o searchQuery \o filterQuery[Cardinality(used)]
          \o <<Text(" ORDER BY ")>> \o orderBy
          \o <<Text(" LIMIT "), Placeholder(argIndex),
               Text(" OFFSET "), Placeholder(argIndex + 1)>>

-----------------------------------------------------------------------------
(* ContentRepository: listing and relation preloading *)

\* ContentRepository.getRelatedData: the outcomes of the lookup of
\* fieldValue in the related table.  A string is bound as text; the row
\* returned is any row that matches (the statement has no ORDER BY), nil
\* when none does.  nil is bound as NULL, which equals nothing.  A nested
\* map cannot be bound as a statement parameter: the lookup fails.
getRelatedData(rows, config, fieldValue) ==
    LET matching ==
            {id \in DOMAIN rows :
                /\ rows[id].tableSlug = config.relatedTable
                /\ LET got == JsonbGetText(rows[id].values, config.relatedField)
                   IN  ~got.null /\ got.text = fieldValue.s}
    IN  IF fieldValue.t = "object" THEN {[err |-> TRUE, data |-> JNull]}
        ELSE IF fieldValue.t = "null" \/ matching = {}
        THEN {[err |-> FALSE, data |-> JNull]}
        ELSE {[err |-> FALSE, data |-> JObject(rows[id].values)] :
                id \in matching}

\* "_" + field.Name + "_related"
RelatedKey(name) ==
    <<"_">> \o name \o <<"_", "r", "e", "l", "a", "t", "e", "d">>

\* The inner loop of preloadRelatedData without the continue of line 316: the
\* result of a failed lookup is stored like any other.
RECURSIVE PreloadContentStoringFailures(_, _, _)
PreloadContentStoringFailures(rows, values, relationFields) ==
    IF Len(relationFields) = 0 THEN {values}
    ELSE LET field == Head(relationFields)
         IN  IF field.name \notin DOMAIN values
             THEN PreloadContentStoringFailures(rows, values, Tail(relationFields))
             ELSE UNION {
                    PreloadContentStoringFailures(rows,
                        (RelatedKey(field.name) :> r.data) @@ values,
                        Tail(relationFields)) :
                    r \in getRelatedData(rows, field.relationConfig,
                                         values[field.name]) }

\* The inner loop of preloadRelatedData for one content: the value maps it
\* can leave behind.  A failed lookup is logged and skipped; any other
\* result, nil included, is stored under the related key.
RECURSIVE PreloadContent(_, _, _)
PreloadContent(rows, values, relationFields) ==
    IF Len(relationFields) = 0 THEN {values}
    ELSE LET field == Head(relationFields)
         IN  IF field.name \notin DOMAIN values
             THEN PreloadContent(rows, values, Tail(relationFields))
             ELSE UNION {
                    PreloadContent(rows,
                        IF r.err THEN values
                        ELSE (RelatedKey(field.name) :> r.data) @@ values,
                        Tail(relationFields)) :
                    r \in getRelatedData(rows, field.relationConfig,
                                         values[field.name]) }

RECURSIVE PreloadContents(_, _, _)
PreloadContents(rows, list, relationFields) ==
    IF Len(list) = 0 THEN {<<>>}
    ELSE { <<[Head(list) EXCEPT !.values = v]>> \o rest :
             v \in PreloadContent(rows, Head(list).values, relationFields),
             rest \in PreloadContents(rows, Tail(list), relationFields) }

\* ContentRepository.preloadRelatedData.  schema.Fields is read without a
\* nil check: when the table has no schema the function panics.
preloadRelatedData(registry, rows, list, tableSlug) ==
    LET found == SchemaRepository_GetSchemaBySlug(registry, tableSlug)
        relationFields ==
            SelectSeq(found.schema.fields,
                      LAMBDA f : f.dataType = "relation" /\ f.relationConfig.set)
    IN  IF found.nil THEN [panic |-> TRUE, lists |-> {}]
        ELSE IF Len(relationFields) = 0 THEN [panic |-> FALSE, lists |-> {list}]
        ELSE [panic |-> FALSE,
              lists |-> PreloadContents(rows, list, relationFields)]

\* ContentRepository.GetRelatedDataForField: SELECT values FROM contents
\* WHERE table_slug = $1 ORDER BY created_at DESC; the lists the store may
\* return.
ContentRepository_GetRelatedDataForField(rows, config) ==
    LET ids == {id \in DOMAIN rows : rows[id].tableSlug = config.relatedTable}
        keys == [id \in ids |-> SortKey(rows[id], OrderBy(<<>>, <<>>))]
    IN  { [i \in 1..Len(o) |-> UnmarshalValues(rows[o[i]].values)] :
            o \in Orderings(ids, keys, TRUE) }

\* ContentHandler.GetRelatedData.  schema.Fields is read without a nil check
\* and targetField.RelationConfig is dereferenced by the repository: both
\* panic on nil.
ContentHandler_GetRelatedData(registry, rows, n, sn, tableSlug, fieldName) ==
    LET found == SchemaRepository_GetSchemaBySlug(registry, tableSlug)
        targetFields ==
            SelectSeq(found.schema.fields,
                      LAMBDA f : f.name = fieldName /\ f.dataType = "relation")
    IN  IF tableSlug = "" \/ fieldName = <<>>
        THEN {Result(StatusBadRequest,
                     ErrorBody("table slug and field name are required"),
                     registry, rows, n, sn)}
        ELSE IF found.nil
        THEN {Recovered(registry, rows, n, sn)}
        ELSE IF Len(targetFields) = 0
        THEN {Result(StatusNotFound, ErrorBody("relation field not found"),
                     registry, rows, n, sn)}
        ELSE IF ~Head(targetFields).relationConfig.set
        THEN {Recovered(registry, rows, n, sn)}
        ELSE { Result(StatusOK, relatedData, registry, rows, n, sn) :
                 relatedData \in ContentRepository_GetRelatedDataForField(
                                     rows, Head(targetFields).relationConfig) }

NoResponse ==
    [contents |-> <<>>, total |-> 0, page |-> I64(0), pageSize |-> 0,
     totalPages |-> 0]

\* ContentRepository.GetContentsByTableSlug: the outcomes of one call.
\* params is models.ContentQueryParams with Page and PageSize as ints.
\* kind is "ok", "err" (an error is returned) or "panic".  A negative
\* OFFSET is an error in the store.  When sortBy ends the quoted literal
\* the statement is whatever the rest of sortBy makes of it: it may fail
\* or return the rows in any order.
ContentRepository_GetContentsByTableSlug(registry, rows, tableSlug, params) ==
    LET matches == {id \in DOMAIN rows :
                       WhereHolds(rows[id], tableSlug, params.search,
                                  params.filters)}
        orderBy == OrderBy(params.sortBy, params.sortDir)
        total == Cardinality(matches)
        page == IF I64Lt(params.page, 1) THEN I64(1) ELSE params.page
        pageSize == IF I64Lt(params.pageSize, 1) THEN 10
                    ELSE IF I64Gt(params.pageSize, 100) THEN 100
                    ELSE NatSmall(params.pageSize)
        offset == I64Mul(I64Dec(page), pageSize)
        totalPages == (total + pageSize - 1) \div pageSize
        keys == [id \in matches |->
                    IF orderBy.quoted THEN SortKey(rows[id], orderBy)
                    ELSE [null |-> TRUE, n |-> 0, text |-> <<>>]]
        failed == [kind |-> "err", err |-> "failed to query contents",
                   response |-> NoResponse]
        answers ==
            UNION {
              LET window == LimitOffset(ordered, pageSize, offset)
                  list == [i \in 1..Len(window) |->
                              scanToContent(window[i], rows[window[i]])]
                  loaded == preloadRelatedData(registry, rows, list, tableSlug)
              IN  IF loaded.panic
                  THEN {[kind |-> "panic", err |-> "", response |-> NoResponse]}
                  ELSE {[kind |-> "ok", err |-> "",
                         response |-> [contents |-> l, total |-> total,
                                       page |-> page, pageSize |-> pageSize,
                                       totalPages |-> totalPages]] :
                          l \in loaded.lists}
              : ordered \in Orderings(matches, keys, orderBy.desc) }
    IN  IF I64IsNeg(offset) THEN {failed}
        ELSE IF ~orderBy.quoted THEN {failed} \cup answers
        ELSE answers

\* ContentRepository.GetContents, the listing kept for backward
\* compatibility: page 1 with PageSize 1000 of GetContentsByTableSlug.
ContentRepository_GetContents(registry, rows, tableSlug) ==
    { [kind |-> r.kind, contents |-> r.response.contents] :
        r \in ContentRepository_GetContentsByTableSlug(
                  registry, rows, tableSlug,
                  [search |-> <<>>, filters |-> ParseFilters(<<>>),
                   sortBy |-> <<>>, sortDir |-> <<>>,
                   page |-> I64(1), pageSize |-> I64(1000)]) }

-----------------------------------------------------------------------------
(* handlers.ContentHandler: listing *)

\* The page and pageSize parsing of ContentHandler.GetContents: the value of
\* the query parameter when it is a positive int, 0 otherwise.
PositiveOrZero(str) ==
    IF str # <<>> /\ ~Atoi(str).err /\ I64Gt(Atoi(str).v, 0) THEN Atoi(str).v
    ELSE I64(0)

\* Mutant of ContentHandler_GetContents: the value maps the preloading has
\* extended are written back to the rows they were read from.
GetContentsStoringPreload(registry, rows, n, sn, tableSlug, q) ==
    LET page == PositiveOrZero(q.page)
        pageSize == PositiveOrZero(q.pageSize)
        params == [search |-> q.search,
                   filters |-> ParseFilters(q.filters),
                   sortBy |-> q.sortBy,
                   sortDir |-> q.sortDir,
                   page |-> IF NatIsZero(page) THEN I64(1) ELSE page,
                   pageSize |-> IF NatIsZero(pageSize) THEN I64(10)
                                ELSE pageSize]
        written(list) ==
            [id \in DOMAIN rows |->
                IF \E i \in 1..Len(list) : list[i].id = id
                THEN [rows[id] EXCEPT !.values =
                        MarshalValues(
                            list[CHOOSE i \in 1..Len(list) :
                                    list[i].id = id].values)]
                ELSE rows[id]]
    IN  IF tableSlug = ""
        THEN {Result(StatusBadRequest, ErrorBody("table slug is required"),
                     registry, rows, n, sn)}
        ELSE { IF r.kind = "panic" THEN Recovered(registry, rows, n, sn)
               ELSE IF r.kind = "err"
               THEN Result(StatusInternalServerError, ErrorBody(r.err),
                           registry, rows, n, sn)
               ELSE Result(StatusOK, r.response, registry,
                           written(r.response.contents), n, sn)
               : r \in ContentRepository_GetContentsByTableSlug(
                           registry, rows, tableSlug, params) }

\* ContentHandler.GetContents.  q holds the query parameters as c.Query
\* returns them: the parameter's text, empty when it is absent.
ContentHandler_GetContents(registry, rows, n, sn, tableSlug, q) ==
    LET page == PositiveOrZero(q.page)
        pageSize == PositiveOrZero(q.pageSize)
        params == [search |-> q.search,
                   filters |-> ParseFilters(q.filters),
                   sortBy |-> q.sortBy,
                   sortDir |-> q.sortDir,
                   page |-> IF NatIsZero(page) THEN I64(1) ELSE page,
                   pageSize |-> IF NatIsZero(pageSize) THEN I64(10)
                                ELSE pageSize]
    IN  IF tableSlug = ""
        THEN {Result(StatusBadRequest, ErrorBody("table slug is required"),
                     registry, rows, n, sn)}
        ELSE { IF r.kind = "panic" THEN Recovered(registry, rows, n, sn)
               ELSE IF r.kind = "err"
               THEN Result(StatusInternalServerError, ErrorBody(r.err),
                           registry, rows, n, sn)
               ELSE Result(StatusOK, r.response, registry, rows, n, sn)
               : r \in ContentRepository_GetContentsByTableSlug(
                           registry, rows, tableSlug, params) }

-----------------------------------------------------------------------------
(* Requests the clients send *)

Slugs == {"s1", "s2"}
TableNames == {"T1"}

kName == <<"n">>
kAge == <<"a">>
kFoo == <<"f">>
kRelated == <<"_", "r">>
kEmpty == <<>>

vX == JString(<<"x">>)
vY == JString(<<"y">>)

\* Field lists the schema handlers accept ...
FieldLists ==
    { <<Field(kName, TRUE),
        OptionsField(kAge, FALSE, <<"x">>, Options(<<<<"x">>, <<"y">>>>))>>,
      <<OptionsField(kName, TRUE, <<>>, Options(<<>>))>> }

\* ... and field lists they reject: none, a repeated name, an empty name.
BadFieldLists ==
    { <<>>,
      <<Field(kName, TRUE), Field(kName, FALSE)>>,
      <<Field(kName, TRUE), Field(kEmpty, FALSE)>> }

SchemaBodies ==
    [bound : {TRUE}, tableSlug : Slugs, tableName : TableNames,
     fields : FieldLists]
    \cup [bound : {TRUE}, tableSlug : {"s1"}, tableName : TableNames,
          fields : BadFieldLists]

SchemaUpdateBodies ==
    [bound : {TRUE}, tableName : TableNames, fields : FieldLists \cup BadFieldLists]
        \cup {[bound |-> FALSE, tableName |-> "", fields |-> <<>>]}

\* Value maps: conforming ones, one without the required field, one with an
\* unknown key, one with a reserved "_" key, and one with the empty key.
ValueMaps ==
    { (kName :> vX),
      (kName :> vY) @@ (kAge :> vX),
      (kAge :> vX),
      (kName :> vX) @@ (kFoo :> vX),
      (kName :> vX) @@ (kRelated :> vX),
      (kName :> vX) @@ (kEmpty :> vX) }

ContentBodies ==
    [bound : {TRUE}, values : ValueMaps] \cup {[bound |-> FALSE, values |-> <<>>]}

ContentIds == 1..MaxIds

-----------------------------------------------------------------------------
(* The state machine: one action per route of routes.SetupRoutes *)

NoExchange ==
    [op |-> "none", status |-> 0, req |-> <<>>, body |-> <<>>, held |-> 0]

Init ==
    /\ schemas = <<>>
    /\ contents = <<>>
    /\ nextId = 0
    /\ nextSchemaId = 0
    /\ now = 0
    /\ resp = NoExchange
    /\ calls = <<>>
    /\ view = <<>>

\* A request is served at the current clock reading; resp is the exchange of
\* the step just taken.
Respond(op, req, r) ==
    /\ schemas' = r.schemas
    /\ contents' = r.contents
    /\ nextId' = r.nextId
    /\ nextSchemaId' = r.nextSchemaId
    /\ now' = now
    /\ resp' = [op |-> op, status |-> r.status, req |-> req, body |-> r.body,
                held |-> Cardinality(DOMAIN contents)]
    /\ UNCHANGED <<calls, view>>

\* Time passes between requests: CURRENT_TIMESTAMP never runs backwards.
Tick ==
    /\ now < MaxTime
    /\ now' = now + 1
    /\ resp' = NoExchange
    /\ UNCHANGED <<schemas, contents, nextId, nextSchemaId, calls, view>>

\* POST /api/schemas/
CreateSchema ==
    /\ nextSchemaId < MaxSchemaIds
    /\ \E req \in SchemaBodies :
          Respond("CreateSchema", req,
                  SchemaHandler_CreateSchema(schemas, contents, nextId,
                                             nextSchemaId, req))

\* GET /api/schemas/:tableSlug
GetSchema ==
    \E slug \in Slugs :
        Respond("GetSchema", [tableSlug |-> slug],
                SchemaHandler_GetSchema(schemas, contents, nextId,
                                        nextSchemaId, slug))

\* PUT /api/schemas/:tableSlug
UpdateSchema ==
    \E slug \in Slugs, req \in SchemaUpdateBodies :
        Respond("UpdateSchema", [tableSlug |-> slug, body |-> req],
                SchemaHandler_UpdateSchema(schemas, contents, nextId,
                                           nextSchemaId, slug, req))

\* DELETE /api/schemas/:tableSlug
DeleteSchema ==
    \E slug \in Slugs :
        Respond("DeleteSchema", [tableSlug |-> slug],
                SchemaHandler_DeleteSchema(schemas, contents, nextId,
                                           nextSchemaId, slug))

\* POST /api/contents/:tableSlug
CreateContent ==
    /\ nextId < MaxIds
    /\ \E slug \in Slugs, req \in ContentBodies :
          \E r \in ContentHandler_CreateContent(schemas, contents, nextId,
                                                nextSchemaId, slug, req, now) :
              Respond("CreateContent", [tableSlug |-> slug, body |-> req], r)

\* GET /api/contents/:tableSlug/:id
GetContent ==
    \E id \in ContentIds :
        Respond("GetContent", [id |-> id],
                ContentHandler_GetContent(schemas, contents, nextId,
                                          nextSchemaId, id))

\* PUT /api/contents/:tableSlug/:id
UpdateContent ==
    \E id \in ContentIds, req \in ContentBodies :
        \E r \in ContentHandler_UpdateContent(schemas, contents, nextId,
                                              nextSchemaId, id, req, now) :
            Respond("UpdateContent", [id |-> id, body |-> req], r)

\* DELETE /api/contents/:tableSlug/:id
DeleteContent ==
    \E id \in ContentIds :
        Respond("DeleteContent", [id |-> id],
                ContentHandler_DeleteContent(schemas, contents, nextId,
                                             nextSchemaId, id))

Next ==
    \/ CreateSchema
    \/ GetSchema
    \/ UpdateSchema
    \/ DeleteSchema
    \/ CreateContent
    \/ GetContent
    \/ UpdateContent
    \/ DeleteContent
    \/ Tick

Spec == Init /\ [][Next]_vars

-----------------------------------------------------------------------------
(* The field validator on its own: SpecValidate draws a value map and a     *)
(* field list, then applies validateContentAgainstSchema to them.  resp     *)
(* holds the call: req the arguments, body the outcome.                     *)

MaxFields == 2       \* fields in a drawn field list

ValidateKeys == {kName, kAge, kFoo, kRelated, kEmpty, <<"_">>}
ValidateMaps == UNION {[ks -> {vX}] : ks \in SUBSET ValidateKeys}
ValidateFields == {Field(k, r) : k \in {kName, kAge, kEmpty}, r \in BOOLEAN}
ValidateFieldLists == UNION {[1..l -> ValidateFields] : l \in 0..MaxFields}

InitValidate ==
    /\ schemas = <<>>
    /\ contents = <<>>
    /\ nextId = 0
    /\ nextSchemaId = 0
    /\ now = 0
    /\ \E values \in ValidateMaps, fields \in ValidateFieldLists :
          resp = [op |-> "call", status |-> 0,
                  req |-> [values |-> values, fields |-> fields],
                  body |-> [kind |-> "", name |-> <<>>], held |-> 0]
    /\ calls = <<>>
    /\ view = <<>>

Validate ==
    /\ resp.op = "call"
    /\ \E v \in validateContentAgainstSchema(resp.req.values, resp.req.fields) :
          resp' = [resp EXCEPT !.op = "validateContentAgainstSchema", !.body = v]
    /\ UNCHANGED <<schemas, contents, nextId, nextSchemaId, now, calls, view>>

SpecValidate == InitValidate /\ [][Validate]_vars

-----------------------------------------------------------------------------
(* Listing on its own.  GET /api/contents/:tableSlug never writes, so       *)
(* SpecList starts from a populated store that the write routes can build   *)
(* and applies ContentHandler.GetContents to it.                            *)

MaxRecords == 25     \* rows of table s1 in a drawn store
MaxSortRows == 5     \* rows in a store that is listed ordered by a JSON member

\* Values of the rows of a large table: row i holds pattern 1 + (i - 1) % 5.
PatternValues(i) ==
    LET k == (i - 1) % 5
    IN  CASE k = 0 -> (kName :> JString(<<"x">>))
          [] k = 1 -> (kName :> JString(<<"X", "y">>)) @@ (kAge :> JString(<<"y">>))
          [] k = 2 -> (kName :> JString(<<"a", "%", "b">>))
          [] k = 3 -> (kName :> JString(<<"y", "_">>)) @@ (kAge :> JString(<<"x">>))
          [] k = 4 -> (kName :> JString(<<"a", "b">>)) @@ (kAge :> JString(<<"x">>))

\* A table s1 of count rows, created one per clock tick; every third row was
\* updated at the tick after its creation.
PagingStore(count) ==
    [schemas |-> ("s1" :> [id |-> 1, tableName |-> "T1",
                           fields |-> MarshalFields(
                               <<Field(kName, TRUE), Field(kAge, FALSE)>>)]),
     contents |-> [i \in 1..count |->
                     [tableSlug |-> "s1",
                      values |-> MarshalValues(PatternValues(i)),
                      createdAt |-> i,
                      updatedAt |-> IF i % 3 = 0 THEN i + 1 ELSE i]],
     nextId |-> count, nextSchemaId |-> 1, now |-> count + 1]

kRel == <<"r">>

\* Table s1 has a relation field r to the member n of table s2.  Two rows of
\* s2 hold n = "x"; the rows of s1 refer to "x", to a value no row of s2
\* holds, and to nothing.
RelationStore ==
    [schemas |-> ("s1" :> [id |-> 1, tableName |-> "T1",
                           fields |-> MarshalFields(
                               <<Field(kName, TRUE),
                                 RelationField(kRel, "s2", kName)>>)])
                 @@ ("s2" :> [id |-> 2, tableName |-> "T1",
                              fields |-> MarshalFields(
                                  <<Field(kName, TRUE)>>)]),
     contents |->
        [i \in 1..5 |->
            [tableSlug |-> IF i <= 2 THEN "s2" ELSE "s1",
             values |-> MarshalValues(
                 CASE i = 1 -> (kName :> vX)
                   [] i = 2 -> (kName :> vX) @@ (kAge :> vY)
                   [] i = 3 -> (kName :> vY) @@ (kRel :> vX)
                   [] i = 4 -> (kName :> vX) @@ (kRel :> vY)
                   [] i = 5 -> (kName :> vX)),
             createdAt |-> i, updatedAt |-> i]],
     nextId |-> 5, nextSchemaId |-> 2, now |-> 5]

\* Table s1 has the relation fields r and a to the member n of table s2.
\* One row of s1 holds a nested map at r, a value the lookup cannot bind.
LookupFailureStore ==
    [schemas |-> ("s1" :> [id |-> 1, tableName |-> "T1",
                           fields |-> MarshalFields(
                               <<Field(kName, TRUE),
                                 RelationField(kRel, "s2", kName),
                                 RelationField(kAge, "s2", kName)>>)])
                 @@ ("s2" :> [id |-> 2, tableName |-> "T1",
                              fields |-> MarshalFields(
                                  <<Field(kName, TRUE),
                                    [RelationField(kRel, "", <<>>) EXCEPT
                                        !.relationConfig = NoRelation]>>)]),
     contents |->
        [i \in 1..3 |->
            [tableSlug |-> IF i = 1 THEN "s2" ELSE "s1",
             values |-> MarshalValues(
                 CASE i = 1 -> (kName :> vX)
                   [] i = 2 -> (kName :> vY) @@ (kAge :> vX)
                                 @@ (kRel :> JObject({<<kName, vX>>}))
                   [] i = 3 -> (kName :> vX) @@ (kRel :> vX)),
             createdAt |-> i, updatedAt |-> i]],
     nextId |-> 3, nextSchemaId |-> 2, now |-> 3]

ListStores ==
    {PagingStore(count) : count \in 0..MaxRecords}
      \cup {RelationStore, LookupFailureStore}

\* Query parameter texts.
PageTexts ==
    { <<>>, <<"1">>, <<"2">>, <<"3">>, <<"0">>, <<"-", "1">>, <<"x">>,
      \* 2^62 + 1
      <<"4", "6", "1", "1", "6", "8", "6", "0", "1", "8", "4", "2", "7", "3",
        "8", "7", "9", "0", "5">>,
      \* 2^63 - 1, the largest int, and 2^63
      <<"9", "2", "2", "3", "3", "7", "2", "0", "3", "6", "8", "5", "4", "7",
        "7", "5", "8", "0", "7">>,
      <<"9", "2", "2", "3", "3", "7", "2", "0", "3", "6", "8", "5", "4", "7",
        "7", "5", "8", "0", "8">> }

PageSizeTexts ==
    { <<>>, <<"1">>, <<"4">>, <<"1", "0">>, <<"1", "0", "0">>,
      <<"1", "0", "1">>, <<"0">>, <<"-", "3">> }

SearchTexts == { <<>>, <<"x">>, <<"Y">>, <<"%">>, <<"_">>, <<"a", "b">> }

FilterTexts ==
    { <<>>, <<"n", "=", "x">>, <<"a", "=", "x", ",", "n", "=", "a", "b">>,
      <<"a", "=">>, <<"f", "=", "x">> }

Sorts ==
    { <<<<>>, <<>>>>, <<<<>>, <<"a", "s", "c">>>>,
      <<created_at, <<"a", "s", "c">>>>,
      <<updated_at, <<"D", "e", "s", "c">>>>, <<kName, <<>>>>,
      <<kName, <<"d", "e", "s">>>>,
      <<kAge, <<"d", "e", "s", "c">>>>,
      <<<<"n", "'">>, <<>>>> }

Query(search, filters, sort, page, pageSize) ==
    [search |-> search, filters |-> filters, sortBy |-> sort[1],
     sortDir |-> sort[2], page |-> page, pageSize |-> pageSize]

\* Every page with every page size; every search and filter with a few
\* pages, in small pages and in one page that holds every match; every
\* ordering.
ListQueries ==
    {Query(<<>>, <<>>, <<<<>>, <<>>>>, p, ps) :
        p \in PageTexts, ps \in PageSizeTexts}
    \cup {Query(se, f, <<<<>>, <<>>>>, p, ps) :
            se \in SearchTexts, f \in FilterTexts, p \in {<<>>, <<"2">>},
            ps \in {<<"4">>, <<"1", "0", "0">>}}
    \cup {Query(<<>>, <<>>, so, <<>>, ps) :
            so \in Sorts, ps \in {<<>>, <<"4">>}}

InitList ==
    /\ \E store \in ListStores :
          /\ schemas = store.schemas
          /\ contents = store.contents
          /\ nextId = store.nextId
          /\ nextSchemaId = store.nextSchemaId
          /\ now = store.now
    /\ resp = NoExchange
    /\ calls = <<>>
    /\ view = <<>>

\* GET /api/contents/:tableSlug, sent by a client that holds no response.
GetContents ==
    /\ resp = NoExchange
    /\ \E slug \in Slugs, q \in ListQueries :
          /\ q.sortBy \notin {<<>>, created_at, updated_at}
                => Cardinality(DOMAIN contents) <= MaxSortRows
          /\ \E r \in ContentHandler_GetContents(schemas, contents, nextId,
                                                 nextSchemaId, slug, q) :
                Respond("GetContents", [tableSlug |-> slug, query |-> q], r)

\* The client takes the response; the next request can be sent.
Received ==
    /\ resp # NoExchange
    /\ resp' = NoExchange
    /\ UNCHANGED <<schemas, contents, nextId, nextSchemaId, now, calls, view>>

\* GET /api/contents/:tableSlug/related/:fieldName
GetRelatedData ==
    /\ resp = NoExchange
    /\ \E slug \in Slugs, fieldName \in {kName, kRel, kFoo} :
          \E r \in ContentHandler_GetRelatedData(schemas, contents, nextId,
                                                 nextSchemaId, slug, fieldName) :
             Respond("GetRelatedData",
                     [tableSlug |-> slug, fieldName |-> fieldName], r)

\* GET /api/contents/:tableSlug/:id for a record of the page the client was
\* answered.
GetListedContent ==
    /\ resp.op = "GetContents"
    /\ resp.status = StatusOK
    /\ \E i \in 1..Len(resp.body.contents) :
          LET id == resp.body.contents[i].id
          IN  Respond("GetContent", [id |-> id],
                      ContentHandler_GetContent(schemas, contents, nextId,
                                                nextSchemaId, id))

NextList == GetContents \/ GetRelatedData \/ GetListedContent \/ Received

SpecList == InitList /\ [][NextList]_vars

-----------------------------------------------------------------------------
(* SpecAll: the backward-compatible listing over tables of every size up   *)
(* to MaxAllRecords.                                                       *)

MaxAllRecords == 102

InitAll ==
    /\ \E count \in 0..MaxAllRecords :
          LET store == PagingStore(count)
          IN  /\ schemas = store.schemas
              /\ contents = store.contents
              /\ nextId = store.nextId
              /\ nextSchemaId = store.nextSchemaId
              /\ now = store.now
    /\ resp = NoExchange
    /\ calls = <<>>
    /\ view = <<>>

\* A caller of ContentRepository.GetContents(tableSlug).
GetAllContents ==
    /\ resp = NoExchange
    /\ \E slug \in Slugs :
          \E r \in ContentRepository_GetContents(schemas, contents, slug) :
             resp' = [op |-> "ContentRepository.GetContents", status |-> 0,
                      req |-> [tableSlug |-> slug], body |-> r,
                      held |-> Cardinality(DOMAIN contents)]
    /\ UNCHANGED <<schemas, contents, nextId, nextSchemaId, now, calls, view>>

NextAll == GetAllContents \/ Received

SpecAll == InitAll /\ [][NextAll]_vars

-----------------------------------------------------------------------------
(* SpecView: the TableView page over a table of MaxRecords records.  view  *)
(* holds the React state of the component, the timer of its debounced      *)
(* effect with the values the timer's closure captured, and the fetches in *)
(* flight.  selected and inputs record what the user did: the page chosen  *)
(* by the last input (0 when it was no page change) and the number of      *)
(* inputs.                                                                 *)

MaxInputs == 2

ViewPageSizes == {10, 25}
ViewSearchTerms == {<<>>, <<"x">>}

\* Number.prototype.toString of a non-negative integer.
RECURSIVE toString(_)
toString(n) ==
    LET digit == <<"0", "1", "2", "3", "4", "5",
                   "6", "7", "8", "9">>[(n % 10) + 1]
    IN  IF n < 10 THEN <<digit>> ELSE toString(n \div 10) \o <<digit>>

\* The values of the effect's dependency list in a render; the callbacks
\* created in that render read these values.
Deps(v) ==
    [searchTerm |-> v.searchTerm, currentPage |-> v.currentPage,
     pageSize |-> v.pageSize]

NoTimer ==
    [set |-> FALSE,
     deps |-> [searchTerm |-> <<>>, currentPage |-> 0, pageSize |-> 0]]

\* A render after state updates.  When a dependency changed React runs the
\* effect again: the cleanup clears the timer of the previous run and
\* setTimeout arms one whose callback holds the fetchData of this render.
Render(old, new) ==
    IF Deps(new) = Deps(old) THEN new
    ELSE [new EXCEPT !.timer = [set |-> TRUE, deps |-> Deps(new)]]

\* contentAPI.getAll(tableSlug, params) as the request the handler receives:
\* search and sortBy are sent when not empty, sortDir is 'asc'.
getAll(deps) ==
    Query(deps.searchTerm, <<>>, <<<<>>, <<"a", "s", "c">>>>,
          toString(deps.currentPage), toString(deps.pageSize))

\* The pages of the table at the smallest page size.
ViewPages == (MaxRecords + 9) \div 10

\* What fetchData reads of a response: whether it is a success, the ids of
\* response.contents and response.totalPages.
Fetched(r) ==
    IF r.status = StatusOK
    THEN [ok |-> TRUE,
          contents |-> [i \in 1..Len(r.body.contents) |->
                           r.body.contents[i].id],
          totalPages |-> r.body.totalPages]
    ELSE [ok |-> FALSE, contents |-> <<>>, totalPages |-> 0]

\* The page is mounted: the first render has run the effect.  The store does
\* not change while the page is shown, so the backend answers a request the
\* same way whenever it arrives; answers holds, for every request, the
\* responses GetContents may give.
InitView ==
    /\ LET store == PagingStore(MaxRecords)
       IN  /\ schemas = store.schemas
           /\ contents = store.contents
           /\ nextId = store.nextId
           /\ nextSchemaId = store.nextSchemaId
           /\ now = store.now
    /\ resp = NoExchange
    /\ calls = <<>>
    /\ view = LET first == [searchTerm |-> <<>>, currentPage |-> 1,
                            pageSize |-> 10, totalPages |-> 0,
                            contents |-> <<>>, timer |-> NoTimer,
                            fetches |-> {}, selected |-> 0, inputs |-> 0,
                            answers |->
                              [deps \in [searchTerm : ViewSearchTerms,
                                         currentPage : 1..ViewPages,
                                         pageSize : ViewPageSizes] |->
                                 {Fetched(r) :
                                    r \in ContentHandler_GetContents(
                                             schemas, contents, nextId,
                                             nextSchemaId, "s1", getAll(deps))}]]
              IN  [first EXCEPT !.timer = [set |-> TRUE, deps |-> Deps(first)]]

\* The timer's callback: setCurrentPage(1); fetchData(), the fetchData of
\* the render that armed the timer.
TimerFires ==
    /\ view.timer.set
    /\ LET fired == [view EXCEPT !.timer = NoTimer,
                                 !.fetches = @ \cup {view.timer.deps}]
       IN  view' = Render(fired, [fired EXCEPT !.currentPage = 1])
    /\ UNCHANGED <<schemas, contents, nextId, nextSchemaId, now, resp, calls>>

\* The await of fetchData resumes: setContents, setTotalPages; on a failure
\* setError.
fetchDataResumes ==
    /\ \E deps \in view.fetches :
          \E r \in view.answers[deps] :
             view' = IF r.ok
                     THEN [view EXCEPT !.fetches = @ \ {deps},
                                       !.contents = r.contents,
                                       !.totalPages = r.totalPages]
                     ELSE [view EXCEPT !.fetches = @ \ {deps}]
    /\ UNCHANGED <<schemas, contents, nextId, nextSchemaId, now, resp, calls>>

\* The user's input number view.inputs + 1, which selects page selected.
Input(new, selected) ==
    /\ view.inputs < MaxInputs
    /\ view' = [Render(view, new) EXCEPT !.selected = selected,
                                         !.inputs = @ + 1]
    /\ UNCHANGED <<schemas, contents, nextId, nextSchemaId, now, resp, calls>>

\* handlePageChange(page), from the pagination controls.
handlePageChange ==
    \E page \in 1..view.totalPages :
        Input([view EXCEPT !.currentPage = page], page)

\* handlePageSizeChange(newPageSize)
handlePageSizeChange ==
    \E newPageSize \in ViewPageSizes :
        Input([view EXCEPT !.pageSize = newPageSize, !.currentPage = 1], 0)

\* handleSearchChange(value); filters and sorting change the dependency list
\* in the same way.
handleSearchChange ==
    \E value \in ViewSearchTerms :
        Input([view EXCEPT !.searchTerm = value], 0)

NextView ==
    \/ TimerFires
    \/ fetchDataResumes
    \/ handlePageChange
    \/ handlePageSizeChange
    \/ handleSearchChange

\* The event loop runs every timer that is due and every response arrives.
SpecView ==
    /\ InitView
    /\ [][NextView]_vars
    /\ WF_vars(TimerFires)
    /\ WF_vars(fetchDataResumes)

-----------------------------------------------------------------------------
(* Handlers side by side.  gin serves every request on its own goroutine;  *)
(* the handlers share nothing but the store, and every statement is atomic *)
(* in the store.  A step of SpecRace is one statement of one handler,      *)
(* together with the local computation that follows it.                    *)

Callers == {1, 2}

\* The requests that race: Updates and a Delete of record 1, a Delete of its
\* schema, and a Create in that schema.
RaceRequests ==
    {[op |-> "UpdateContent", pc |-> "GetContentByID",
      req |-> [tableSlug |-> "s1", id |-> 1, values |-> v]] :
        v \in {(kName :> vY), (kName :> vX) @@ (kAge :> vY)}}
    \cup {[op |-> "DeleteContent", pc |-> "DeleteContent",
           req |-> [tableSlug |-> "s1", id |-> 1, values |-> <<>>]],
          [op |-> "DeleteSchema", pc |-> "DeleteSchema",
           req |-> [tableSlug |-> "s1", id |-> 0, values |-> <<>>]],
          [op |-> "CreateContent", pc |-> "GetSchemaBySlug",
           req |-> [tableSlug |-> "s1", id |-> 0, values |-> (kName :> vY)]]}

\* Table s1 with the record 1, written before the clock reading of the race.
\* No caller has sent anything: the locals of a handler are the request,
\* existingContent and schema.
InitRace ==
    /\ schemas = ("s1" :> [id |-> 1, tableName |-> "T1",
                           fields |-> MarshalFields(
                               <<Field(kName, TRUE), Field(kAge, FALSE)>>)])
    /\ contents = (1 :> [tableSlug |-> "s1",
                         values |-> MarshalValues((kName :> vX) @@ (kAge :> vX)),
                         createdAt |-> 0, updatedAt |-> 0])
    /\ nextId = 1
    /\ nextSchemaId = 1
    /\ now = 1
    /\ resp = NoExchange
    /\ calls = [c \in Callers |->
                  [op |-> "none", pc |-> "idle",
                   req |-> [tableSlug |-> "", id |-> 0, values |-> <<>>],
                   existingContent |-> NoContent,
                   schema |-> [nil |-> TRUE, schema |-> NoSchema],
                   status |-> 0, body |-> <<>>]]
    /\ view = <<>>

\* c.JSON(status, body): the handler of caller c returns.
Answer(c, status, body) ==
    calls' = [calls EXCEPT ![c].pc = "done", ![c].status = status,
                           ![c].body = body]

\* The router hands a request to a handler.
RaceSend(c) ==
    /\ calls[c].pc = "idle"
    /\ \E r \in RaceRequests :
          calls' = [calls EXCEPT ![c].op = r.op, ![c].pc = r.pc,
                                 ![c].req = r.req]
    /\ UNCHANGED <<schemas, contents, nextId, nextSchemaId, now, resp, view>>

\* ContentHandler.UpdateContent: h.contentRepo.GetContentByID(id)
RaceUpdateGetContentByID(c) ==
    /\ calls[c].op = "UpdateContent"
    /\ calls[c].pc = "GetContentByID"
    /\ LET existing == ContentRepository_GetContentByID(contents,
                                                        calls[c].req.id)
       IN  IF existing.nil
           THEN Answer(c, StatusNotFound, ErrorBody("content not found"))
           ELSE calls' = [calls EXCEPT ![c].existingContent = existing.content,
                                       ![c].pc = "GetSchemaBySlug"]
    /\ UNCHANGED <<schemas, contents, nextId, nextSchemaId, now, resp, view>>

\* ContentHandler.UpdateContent:
\* h.schemaRepo.GetSchemaBySlug(existingContent.TableSlug)
RaceUpdateGetSchemaBySlug(c) ==
    /\ calls[c].op = "UpdateContent"
    /\ calls[c].pc = "GetSchemaBySlug"
    /\ calls' = [calls EXCEPT
                    ![c].schema = SchemaRepository_GetSchemaBySlug(
                                      schemas, calls[c].existingContent.tableSlug),
                    ![c].pc = "UpdateContent"]
    /\ UNCHANGED <<schemas, contents, nextId, nextSchemaId, now, resp, view>>

\* A write that completes the request's values with those the handler read
\* earlier; the repository does not do this.
StaleMergedValues(call) == call.req.values @@ call.existingContent.values

\* The values ContentRepository.UpdateContent binds to SET values = $1: those
\* of the request.
BoundValues(call) == call.req.values

\* ContentHandler.UpdateContent: validateContentAgainstSchema(req.Values,
\* schema.Fields), a nil-pointer panic when schema is nil, then
\* h.contentRepo.UpdateContent(id, &req) and c.JSON(200, content), content
\* being nil when the statement found no row.
RaceUpdateWrite(c) ==
    /\ calls[c].op = "UpdateContent"
    /\ calls[c].pc = "UpdateContent"
    /\ IF calls[c].schema.nil
       THEN /\ Answer(c, StatusInternalServerError, ErrorBody("panic"))
            /\ UNCHANGED contents
       ELSE \E v \in validateContentAgainstSchema(
                         calls[c].req.values, calls[c].schema.schema.fields) :
               IF v.kind # "ok"
               THEN /\ Answer(c, IF v.kind = "panic"
                                 THEN StatusInternalServerError
                                 ELSE StatusBadRequest, ErrorBody(v.kind))
                    /\ UNCHANGED contents
               ELSE LET u == ContentRepository_UpdateContent(
                                 contents, calls[c].req.id,
                                 BoundValues(calls[c]), now)
                    IN  /\ contents' = u.rows
                        /\ Answer(c, StatusOK,
                                  IF u.nil THEN [null |-> TRUE] ELSE u.content)
    /\ UNCHANGED <<schemas, nextId, nextSchemaId, now, resp, view>>

\* ContentHandler.CreateContent: h.schemaRepo.GetSchemaBySlug(tableSlug)
RaceCreateGetSchemaBySlug(c) ==
    /\ calls[c].op = "CreateContent"
    /\ calls[c].pc = "GetSchemaBySlug"
    /\ LET found == SchemaRepository_GetSchemaBySlug(schemas,
                                                     calls[c].req.tableSlug)
       IN  IF found.nil
           THEN Answer(c, StatusNotFound, ErrorBody("table not found"))
           ELSE calls' = [calls EXCEPT ![c].schema = found,
                                       ![c].pc = "CreateContent"]
    /\ UNCHANGED <<schemas, contents, nextId, nextSchemaId, now, resp, view>>

\* ContentHandler.CreateContent: validateContentAgainstSchema, then
\* h.contentRepo.CreateContent(tableSlug, &req).
RaceCreateInsert(c) ==
    /\ calls[c].op = "CreateContent"
    /\ calls[c].pc = "CreateContent"
    /\ \E v \in validateContentAgainstSchema(
                     calls[c].req.values, calls[c].schema.schema.fields) :
          IF v.kind # "ok"
          THEN /\ Answer(c, IF v.kind = "panic" THEN StatusInternalServerError
                            ELSE StatusBadRequest, ErrorBody(v.kind))
               /\ UNCHANGED <<contents, nextId>>
          ELSE LET i == ContentRepository_CreateContent(
                            schemas, contents, nextId, calls[c].req.tableSlug,
                            calls[c].req.values, now)
               IN  /\ contents' = i.rows
                   /\ nextId' = i.n
                   /\ IF i.err # ""
                      THEN Answer(c, StatusInternalServerError, ErrorBody(i.err))
                      ELSE Answer(c, StatusCreated, i.content)
    /\ UNCHANGED <<schemas, nextSchemaId, now, resp, view>>

\* ContentHandler.DeleteContent: one statement.
RaceDeleteContent(c) ==
    /\ calls[c].op = "DeleteContent"
    /\ calls[c].pc = "DeleteContent"
    /\ LET r == ContentHandler_DeleteContent(schemas, contents, nextId,
                                             nextSchemaId, calls[c].req.id)
       IN  /\ contents' = r.contents
           /\ Answer(c, r.status, r.body)
    /\ UNCHANGED <<schemas, nextId, nextSchemaId, now, resp, view>>

\* SchemaHandler.DeleteSchema: one statement, the cascade included.
RaceDeleteSchema(c) ==
    /\ calls[c].op = "DeleteSchema"
    /\ calls[c].pc = "DeleteSchema"
    /\ LET r == SchemaHandler_DeleteSchema(schemas, contents, nextId,
                                           nextSchemaId, calls[c].req.tableSlug)
       IN  /\ schemas' = r.schemas
           /\ contents' = r.contents
           /\ Answer(c, r.status, r.body)
    /\ UNCHANGED <<nextId, nextSchemaId, now, resp, view>>

NextRace ==
    \E c \in Callers :
        \/ RaceSend(c)
        \/ RaceUpdateGetContentByID(c)
        \/ RaceUpdateGetSchemaBySlug(c)
        \/ RaceUpdateWrite(c)
        \/ RaceCreateGetSchemaBySlug(c)
        \/ RaceCreateInsert(c)
        \/ RaceDeleteContent(c)
        \/ RaceDeleteSchema(c)

SpecRace == InitRace /\ [][NextRace]_vars

-----------------------------------------------------------------------------
(* Properties *)

\* The specification's reading of the reserved prefix and of conformance,
\* stated without reference to the validator's code.
HasReservedPrefix(key) == Len(key) >= 1 /\ key[1] = "_"

RequiredPresent(values, fields) ==
    \A i \in 1..Len(fields) :
        fields[i].required => fields[i].name \in DOMAIN values

KeysKnown(values, fields) ==
    \A k \in DOMAIN values :
        (\E i \in 1..Len(fields) : fields[i].name = k) \/ HasReservedPrefix(k)

StoredValues(id) == UnmarshalValues(contents[id].values)

\* C1: in every reachable state, every key of every stored Record's value
\* map is the name of a field of the current field list of the Record's
\* Schema, or begins with "_" -- also after a schema Update replaced the
\* field list.
C1_KeysInSchemaOrReserved ==
    \A id \in DOMAIN contents :
        /\ contents[id].tableSlug \in DOMAIN schemas
        /\ KeysKnown(StoredValues(id), schemas[contents[id].tableSlug].fields)

C4_RejectedWriteChangesNothing ==
    [][ ( /\ resp'.op \in {"CreateContent", "UpdateContent"}
          /\ resp'.status = StatusBadRequest
          /\ resp'.body.error \in {"missing", "unknown"} )
        => (schemas' = schemas /\ contents' = contents) ]_vars

\* C4 witness: an Update of an existing Record was rejected for an unknown key.
C4_Witness ==
    /\ resp.op = "UpdateContent"
    /\ resp.status = StatusBadRequest
    /\ resp.body.error = "unknown"
    /\ resp.req.id \in DOMAIN contents

C6_UpdateReplacesValues ==
    [][ /\ \A id \in DOMAIN contents \cap DOMAIN contents' :
              /\ contents'[id].tableSlug = contents[id].tableSlug
              /\ contents'[id].createdAt = contents[id].createdAt
              /\ contents'[id].updatedAt >= contents[id].updatedAt
        /\ (resp'.op = "UpdateContent" /\ resp'.status = StatusOK)
            => /\ resp'.req.id \in DOMAIN contents \cap DOMAIN contents'
               /\ resp'.body.id = resp'.req.id
               /\ UnmarshalValues(contents'[resp'.req.id].values)
                      = resp'.req.body.values
               /\ resp'.body.values = resp'.req.body.values
      ]_vars

\* C6 witness: an Update at a later clock reading than the Record's creation
\* stored a value map without the key "a".
C6_Witness ==
    /\ resp.op = "UpdateContent"
    /\ resp.status = StatusOK
    /\ resp.body.updatedAt > resp.body.createdAt
    /\ kAge \notin DOMAIN StoredValues(resp.req.id)

\* C7: a deleted Record stays deleted and its identifier is never handed out
\* again; Read, Update and Delete of an identifier that has no Record answer
\* NotFound and change nothing.
C7_DeletedIsTerminal ==
    [][ /\ \A id \in 1..nextId : id \notin DOMAIN contents => id \notin DOMAIN contents'
        /\ ( /\ resp'.op \in {"GetContent", "UpdateContent", "DeleteContent"}
             /\ resp'.req.id \notin DOMAIN contents )
            => /\ resp'.status = StatusNotFound
               /\ schemas' = schemas
               /\ contents' = contents
      ]_vars

\* C8: a record Create for a slug without a Schema answers NotFound and
\* stores nothing; for a slug with a Schema and a conforming value map it
\* stores exactly one new Record, under an identifier never handed out
\* before, and leaves every other Record as it was.
C8_CreateStoresOneFreshRecord ==
    [][ resp'.op = "CreateContent"
        => LET slug == resp'.req.tableSlug
               body == resp'.req.body
           IN  /\ slug \notin DOMAIN schemas
                    => (resp'.status = StatusNotFound /\ contents' = contents)
               /\ ( /\ slug \in DOMAIN schemas
                    /\ body.bound
                    /\ RequiredPresent(body.values, schemas[slug].fields)
                    /\ KeysKnown(body.values, schemas[slug].fields) )
                    => resp'.status = StatusCreated
               /\ resp'.status = StatusCreated
                    => /\ slug \in DOMAIN schemas
                       /\ resp'.body.id \notin 1..nextId
                       /\ DOMAIN contents' = DOMAIN contents \cup {resp'.body.id}
                       /\ contents'[resp'.body.id].tableSlug = slug
                       /\ \A id \in DOMAIN contents : contents'[id] = contents[id]
      ]_vars

\* C8 witness: a Create succeeded while another Record was stored.
C8_Witness ==
    /\ resp.op = "CreateContent"
    /\ resp.status = StatusCreated
    /\ Cardinality(DOMAIN contents) = 2

\* A page or pageSize parameter the specification's contract covers: absent,
\* or a decimal integer.
IsIntOrAbsent(str) == str = <<>> \/ ~Atoi(str).err

\* The page the specification asks List to use: 1 when absent, else the
\* requested integer clamped to >= 1.
ClampedPage(str) ==
    IF str = <<>> \/ I64Lt(Atoi(str).v, 1) THEN I64(1) ELSE Atoi(str).v

\* The page size the specification asks List to use: 10 when absent, else
\* the requested integer clamped into [1, 100].
ClampedPageSize(str) ==
    IF str = <<>> THEN 10
    ELSE IF I64Lt(Atoi(str).v, 1) THEN 1
    ELSE IF I64Gt(Atoi(str).v, 100) THEN 100
    ELSE NatSmall(Atoi(str).v)

\* Positions (page-1)*pageSize+1 .. min(page*pageSize, N) of ordered, the
\* product taken in the naturals; none when (page-1)*pageSize >= N.
PageWindow(ordered, page, pageSize) ==
    LET skip == NatSmall(NatMulAdd(NatDec(page), pageSize, 0))
        last == IF skip + pageSize < Len(ordered) THEN skip + pageSize
                ELSE Len(ordered)
    IN  IF skip = -1 \/ skip >= Len(ordered) THEN <<>>
        ELSE SubSeq(ordered, skip + 1, last)

\* The ordered match sets of a List request: the rows the request's table,
\* search and filters select, in each order its sort parameters allow.
OrderedMatches(slug, q) ==
    LET matches == {id \in DOMAIN contents :
                       WhereHolds(contents[id], slug, q.search,
                                  ParseFilters(q.filters))}
        orderBy == OrderBy(q.sortBy, q.sortDir)
    IN  Orderings(matches,
                  [id \in matches |-> SortKey(contents[id], orderBy)],
                  orderBy.desc)

\* C9: for every number N of matching records and every requested page and
\* pageSize, List answers with page clamped to >= 1 and pageSize clamped
\* into [1, 100], with exactly the records at positions
\* (page-1)*pageSize+1 .. min(page*pageSize, N) of the ordered match set
\* (none when the offset is >= N), and with totalPages = ceil(N / pageSize).
C9_PageWindow ==
    ( /\ resp.op = "GetContents"
      /\ resp.req.tableSlug \in DOMAIN schemas
      /\ IsIntOrAbsent(resp.req.query.page)
      /\ IsIntOrAbsent(resp.req.query.pageSize) )
    => LET q == resp.req.query
           page == ClampedPage(q.page)
           pageSize == ClampedPageSize(q.pageSize)
       IN  /\ resp.status = StatusOK
           /\ resp.body.page = page
           /\ resp.body.pageSize = pageSize
           /\ \E ordered \in OrderedMatches(resp.req.tableSlug, q) :
                 /\ [i \in 1..Len(resp.body.contents) |->
                        resp.body.contents[i].id]
                      = PageWindow(ordered, page, pageSize)
                 /\ resp.body.totalPages
                      = (Len(ordered) + pageSize - 1) \div pageSize

\* A record's serialized value map contains search as a case-insensitive
\* substring.
ContainsIgnoringCase(text, search) ==
    \E i \in 0..(Len(text) - Len(search)) :
        LowerStr(SubSeq(text, i + 1, i + Len(search))) = LowerStr(search)

\* The specification's predicates 1-3 for one record: it belongs to the
\* table, it contains the search string when one is given, and for every
\* filter entry with a non-empty value its value at the field, as a string,
\* equals the filter value.
MatchesPredicates(row, slug, search, filters) ==
    /\ row.tableSlug = slug
    /\ search # <<>> => ContainsIgnoringCase(JsonbText(row.values), search)
    /\ \A f \in DOMAIN filters :
          filters[f] # <<>>
          => \E m \in row.values :
                m[1] = f /\ m[2].t = "string" /\ m[2].s = filters[f]

\* C10: the total List reports is the number of Records of the table that
\* satisfy the table, search and filter predicates, whatever page and
\* pageSize were requested.
C10_TotalCountsMatches ==
    (resp.op = "GetContents" /\ resp.status = StatusOK)
    => resp.body.total
         = Cardinality({id \in DOMAIN contents :
                MatchesPredicates(contents[id], resp.req.tableSlug,
                                  resp.req.query.search,
                                  ParseFilters(resp.req.query.filters))})

\* The identifiers of the Records a List response carries.
ReturnedIds ==
    {resp.body.contents[i].id : i \in 1..Len(resp.body.contents)}

\* A List request that asks for the first page of 100: the page holds every
\* match of a store of at most MaxRecords Records.
WholeMatchSet ==
    /\ resp.op = "GetContents"
    /\ resp.status = StatusOK
    /\ resp.req.query.page = <<>>
    /\ resp.req.query.pageSize = <<"1", "0", "0">>

\* C11: for every non-empty search string, including one that holds % or _,
\* a Record of the table satisfies the search predicate exactly when the
\* serialized text of its value map contains the search string as a
\* case-insensitive substring; an empty search string selects every Record
\* of the table.
C11_SearchIsSubstring ==
    (WholeMatchSet /\ resp.req.query.filters = <<>>)
    => ReturnedIds
         = {id \in DOMAIN contents :
               /\ contents[id].tableSlug = resp.req.tableSlug
               /\ resp.req.query.search # <<>>
                     => ContainsIgnoringCase(JsonbText(contents[id].values),
                                             resp.req.query.search)}

\* The Records the same List request selects when its filters are left out.
UnfilteredIds ==
    UNION { {r.body.contents[i].id : i \in 1..Len(r.body.contents)} :
            r \in {a \in ContentHandler_GetContents(
                              schemas, contents, nextId, nextSchemaId,
                              resp.req.tableSlug,
                              [resp.req.query EXCEPT !.filters = <<>>]) :
                       a.status = StatusOK} }

\* The Record's value at the field is a string equal to the filter value.
FilterEntryHolds(row, field, value) ==
    \E m \in row.values : m[1] = field /\ m[2].t = "string" /\ m[2].s = value

\* C12: List returns a Record only if, for every filter entry with a
\* non-empty value, the Record's value at that field equals the filter value
\* as a string; entries with an empty value impose no constraint; the filter
\* entries are combined by AND with the table and search predicates, so the
\* result is the part of the unfiltered result that satisfies every entry.
C12_FiltersAreExactAndConjoined ==
    WholeMatchSet
    => LET filters == ParseFilters(resp.req.query.filters)
       IN  ReturnedIds
             = {id \in UnfilteredIds :
                   /\ contents[id].tableSlug = resp.req.tableSlug
                   /\ \A f \in DOMAIN filters :
                         filters[f] # <<>>
                         => FilterEntryHolds(contents[id], f, filters[f])}

\* C12 witness: two filter entries selected some Records of the table and
\* left others out.
C12_Witness ==
    /\ WholeMatchSet
    /\ resp.req.query.filters
         = <<"a", "=", "x", ",", "n", "=", "a", "b">>
    /\ ReturnedIds # {}
    /\ ReturnedIds # UnfilteredIds

\* The order the specification asks of the listed Records ids: by creation
\* time descending when sortBy is empty; else by the named timestamp or by
\* the text of values[sortBy], descending exactly when sortDir is "desc" in
\* any case.  Records without a text value at sortBy are not constrained.
InRequestedOrder(ids, sortBy, sortDir) ==
    LET desc == IF sortBy = <<>> THEN TRUE
                ELSE LowerStr(sortDir) = <<"d", "e", "s", "c">>
        byTime == sortBy \in {<<>>, created_at, updated_at}
        time(id) == IF sortBy = updated_at THEN contents[id].updatedAt
                    ELSE contents[id].createdAt
        has(id) == \E m \in contents[id].values :
                      m[1] = sortBy /\ m[2].t = "string"
        text(id) == (CHOOSE m \in contents[id].values : m[1] = sortBy)[2].s
        before(a, b) == IF byTime THEN time(a) < time(b)
                        ELSE has(a) /\ has(b) /\ StrLess(text(a), text(b))
    IN  \A i, j \in 1..Len(ids) :
            i < j => IF desc THEN ~before(ids[i], ids[j])
                     ELSE ~before(ids[j], ids[i])

\* C13: List orders its results by creation time descending when sortBy is
\* empty, whatever sortDir is; by the timestamp when sortBy is created_at or
\* updated_at, and by the text value of values[sortBy] for every other
\* sortBy; in the non-empty cases descending exactly when sortDir equals
\* "desc" ignoring case, ascending for every other sortDir.
C13_ResultsInRequestedOrder ==
    ( /\ resp.op = "GetContents"
      /\ resp.req.tableSlug \in DOMAIN schemas
      /\ resp.req.query.page = <<>> )
    => /\ resp.status = StatusOK
       /\ InRequestedOrder(
              [i \in 1..Len(resp.body.contents) |-> resp.body.contents[i].id],
              resp.req.query.sortBy, resp.req.query.sortDir)

\* C14: for every table identifier, also one that names no Schema, and
\* every combination of query parameters, List answers with a page
\* structure whose list is present; when no Record matches, the list is
\* empty and total and totalPages are 0; the answer is never an error.
C14_ListAlwaysAnswersAPage ==
    resp.op = "GetContents"
    => /\ resp.status = StatusOK
       /\ resp.body.contents \in Seq({resp.body.contents[i] :
                                        i \in 1..Len(resp.body.contents)})
       /\ (\A id \in DOMAIN contents :
              contents[id].tableSlug # resp.req.tableSlug)
            => /\ resp.body.contents = <<>>
               /\ resp.body.total = 0
               /\ resp.body.totalPages = 0

\* The relation fields of the listed table, and the stored Records a value
\* of such a field refers to.
RelationFieldsOf(slug) ==
    LET fields == UnmarshalFields(schemas[slug].fields)
    IN  {f \in {fields[i] : i \in 1..Len(fields)} :
            f.dataType = "relation" /\ f.relationConfig.set}

TargetsOf(field, value) ==
    {id \in DOMAIN contents :
        /\ contents[id].tableSlug = field.relationConfig.relatedTable
        /\ value.t = "string"
        /\ FilterEntryHolds(contents[id], field.relationConfig.relatedField,
                            value.s)}

\* C15: for every listed Record and every relation field f it holds a value
\* for: when a Record of the target table matches, the listed Record carries
\* "_" + f + "_related" with the whole value map of such a Record; when none
\* matches, the key is absent (not present with a null value); List
\* succeeds in both cases.
C15_RelatedKeyIffTargetMatches ==
    (resp.op = "GetContents" /\ resp.status = StatusOK)
    => \A i \in 1..Len(resp.body.contents) :
         \A f \in RelationFieldsOf(resp.req.tableSlug) :
            LET values == resp.body.contents[i].values
                targets == IF f.name \in DOMAIN values
                           THEN TargetsOf(f, values[f.name]) ELSE {}
            IN  IF targets # {}
                THEN /\ RelatedKey(f.name) \in DOMAIN values
                     /\ \E id \in targets :
                           values[RelatedKey(f.name)]
                             = JObject(contents[id].values)
                ELSE RelatedKey(f.name) \notin DOMAIN values

\* The (field, value) pairs whose relation lookup fails in the store: the
\* value is a nested map, which no statement parameter can carry.
LookupFails(value) == value.t = "object"

\* The stored Records without the members whose relation lookup fails.
WithoutFailingMembers(slug) ==
    [id \in DOMAIN contents |->
        [contents[id] EXCEPT
            !.values = {m \in @ :
                          ~(/\ contents[id].tableSlug = slug
                            /\ \E f \in RelationFieldsOf(slug) : f.name = m[1]
                            /\ LookupFails(m[2]))}]]

\* C16: when the relation lookup of a (Record, field) pair fails with a
\* store error, List still succeeds, the derived key of that field is
\* omitted for that Record, and every other Record and field is enriched as
\* in the answer to the same request on a store without the failing
\* members.
C16_FailedLookupIsSkipped ==
    ( /\ resp.op = "GetContents"
      /\ resp.req.tableSlug \in DOMAIN schemas
      /\ resp.req.query.search = <<>>
      /\ resp.req.query.page = <<>>
      /\ ~Contains(resp.req.query.sortBy, "'") )
    => /\ resp.status = StatusOK
       /\ \E r \in ContentHandler_GetContents(
                       schemas, WithoutFailingMembers(resp.req.tableSlug),
                       nextId, nextSchemaId, resp.req.tableSlug,
                       resp.req.query) :
             /\ r.status = StatusOK
             /\ Len(r.body.contents) = Len(resp.body.contents)
             /\ \A i \in 1..Len(resp.body.contents) :
                   LET got == resp.body.contents[i]
                       clean == r.body.contents[i]
                       failing == {k \in DOMAIN got.values :
                                     /\ LookupFails(got.values[k])
                                     /\ \E f \in RelationFieldsOf(
                                                     resp.req.tableSlug) :
                                           f.name = k}
                   IN  /\ got.id = clean.id
                       /\ DOMAIN got.values = DOMAIN clean.values \cup failing
                       /\ \A k \in failing :
                             RelatedKey(k) \notin DOMAIN got.values
                       /\ \A k \in DOMAIN clean.values :
                             got.values[k] = clean.values[k]

\* C16 witness: a listed Record whose lookup at r failed carries no
\* "_r_related" but is enriched at a, and another listed Record is enriched
\* at r.
C16_Witness ==
    /\ resp.op = "GetContents"
    /\ resp.status = StatusOK
    /\ \E i, j \in 1..Len(resp.body.contents) :
          /\ kRel \in DOMAIN resp.body.contents[i].values
          /\ LookupFails(resp.body.contents[i].values[kRel])
          /\ RelatedKey(kRel) \notin DOMAIN resp.body.contents[i].values
          /\ RelatedKey(kAge) \in DOMAIN resp.body.contents[i].values
          /\ resp.body.contents[i].values[RelatedKey(kAge)]
               = JObject({<<kName, vX>>})
          /\ RelatedKey(kRel) \in DOMAIN resp.body.contents[j].values

\* A field list the specification rejects: empty, with an empty field name,
\* or with two fields of one name.
InvalidFieldList(fields) ==
    \/ Len(fields) = 0
    \/ \E i \in 1..Len(fields) : fields[i].name = <<>>
    \/ \E i, j \in 1..Len(fields) : i # j /\ fields[i].name = fields[j].name

\* C17: a schema Create or Update whose field list is empty, holds an empty
\* field name or holds a repeated field name fails with a validation error,
\* and the stored Schemas and Records are unchanged.
C17_InvalidFieldListRejected ==
    [][ ( \/ /\ resp'.op = "CreateSchema"
              /\ InvalidFieldList(resp'.req.fields)
          \/ /\ resp'.op = "UpdateSchema"
              /\ InvalidFieldList(resp'.req.body.fields) )
        => ( /\ resp'.status = StatusBadRequest
             /\ schemas' = schemas
             /\ contents' = contents ) ]_vars

\* C17 witness: an Update of a stored Schema that holds Records was rejected
\* for a repeated field name.
C17_Witness ==
    /\ resp.op = "UpdateSchema"
    /\ resp.status = StatusBadRequest
    /\ resp.body = ErrorBody("duplicate field names are not allowed")
    /\ resp.req.tableSlug \in DOMAIN schemas
    /\ \E id \in DOMAIN contents :
          contents[id].tableSlug = resp.req.tableSlug

\* C18: right after a schema Create succeeds, Get of its slug returns the
\* slug and table name given to Create and a field list equal to the input
\* list element by element, in the same order: name, label, data type,
\* validation pattern, required flag, options and relation descriptor.
C18_SchemaCreateThenGet ==
    (resp.op = "CreateSchema" /\ resp.status = StatusCreated)
    => LET get == SchemaHandler_GetSchema(schemas, contents, nextId,
                                          nextSchemaId, resp.req.tableSlug)
       IN  /\ get.status = StatusOK
           /\ get.body.tableSlug = resp.req.tableSlug
           /\ get.body.tableName = resp.req.tableName
           /\ Len(get.body.fields) = Len(resp.req.fields)
           /\ \A i \in 1..Len(resp.req.fields) :
                 get.body.fields[i] = resp.req.fields[i]

\* C19: a successful schema Update replaces the schema's table name and its
\* whole field list by the new ones, and leaves unchanged the schema's slug
\* and id, every other schema and every stored Record.
C19_UpdateReplacesNameAndFields ==
    [][ (resp'.op = "UpdateSchema" /\ resp'.status = StatusOK)
        => LET slug == resp'.req.tableSlug
               get == SchemaHandler_GetSchema(schemas', contents', nextId',
                                              nextSchemaId', slug)
           IN  /\ slug \in DOMAIN schemas
               /\ DOMAIN schemas' = DOMAIN schemas
               /\ get.status = StatusOK
               /\ get.body.tableName = resp'.req.body.tableName
               /\ get.body.fields = resp'.req.body.fields
               /\ get.body.tableSlug = slug
               /\ get.body.id = schemas[slug].id
               /\ \A s \in DOMAIN schemas \ {slug} : schemas'[s] = schemas[s]
               /\ contents' = contents ]_vars

\* C20: schema Get, Update (with a valid body) and Delete on a slug for
\* which no Schema exists report NotFound, neither success nor a store
\* failure, and leave the stored Schemas and Records unchanged; Update of a
\* missing slug creates no schema.
C20_MissingSlugIsNotFound ==
    [][ ( /\ resp'.op \in {"GetSchema", "UpdateSchema", "DeleteSchema"}
          /\ resp'.req.tableSlug \notin DOMAIN schemas
          /\ resp'.op = "UpdateSchema"
                => /\ resp'.req.body.bound
                   /\ ~InvalidFieldList(resp'.req.body.fields) )
        => ( /\ resp'.status = StatusNotFound
             /\ schemas' = schemas
             /\ contents' = contents ) ]_vars

\* The response reports Conflict (409 in net/http), the error class the
\* specification gives a duplicate slug.
ReportsConflict(status) == status = 409

\* C21: a schema Create (with a valid body) whose slug is already stored
\* fails with Conflict, and the stored Schemas, the existing Schema with that
\* slug among them, and all Records are unchanged; the registry holds one
\* Schema per slug in every state.
C21_DuplicateSlugIsConflict ==
    [][ ( /\ resp'.op = "CreateSchema"
          /\ ~InvalidFieldList(resp'.req.fields)
          /\ resp'.req.tableSlug \in DOMAIN schemas )
        => ( /\ ReportsConflict(resp'.status)
             /\ schemas' = schemas
             /\ contents' = contents ) ]_vars

\* The statement List sends to the store for the request of resp.
SentQuery(q) ==
    selectQuery([search |-> q.search, filters |-> ParseFilters(q.filters),
                 sortBy |-> q.sortBy, sortDir |-> q.sortDir])

\* Two requests ask for the same form of statement: both search or neither
\* does, they hold as many filters with a value, and they choose the same
\* ORDER BY form (the default, a timestamp column, or a member of values)
\* and direction.
SameQueryForm(q1, q2) ==
    LET used(q) == {f \in DOMAIN ParseFilters(q.filters) :
                       ParseFilters(q.filters)[f] # <<>>}
        form(q) == IF q.sortBy \in {<<>>, created_at, updated_at}
                   THEN q.sortBy ELSE <<"v">>
        desc(q) == q.sortBy # <<>>
                     /\ LowerStr(q.sortDir) = <<"d", "e", "s", "c">>
    IN  /\ (q1.search = <<>>) = (q2.search = <<>>)
        /\ Cardinality(used(q1)) = Cardinality(used(q2))
        /\ form(q1) = form(q2)
        /\ desc(q1) = desc(q2)

\* C22: no string of a List request (search, filter names and values,
\* sortBy, sortDir) is written into the text of the statement sent to the
\* store; the text is made of constant pieces and placeholders only, so
\* requests of the same form send the same text.
C22_QueryTextIsConstant ==
    resp.op = "GetContents"
    => /\ \A i \in 1..Len(SentQuery(resp.req.query)) :
             SentQuery(resp.req.query)[i].spliced = <<>>
       /\ \A q \in ListQueries :
             SameQueryForm(q, resp.req.query)
             => SentQuery(q) = SentQuery(resp.req.query)

\* The callers whose Update has returned.
UpdatesDone == {c \in Callers : calls[c].op = "UpdateContent"
                                /\ calls[c].pc = "done"}

\* C23: when two valid Updates of the same record run side by side, both
\* succeed, the stored value map is exactly that of one of the two requests,
\* and the record keeps its id, its tableSlug and its createdAt.
C23_ConcurrentUpdatesLastWriteWins ==
    UpdatesDone = Callers =>
        /\ \A c \in Callers : calls[c].status = StatusOK
        /\ DOMAIN contents = {1}
        /\ UnmarshalValues(contents[1].values)
               \in {calls[c].req.values : c \in Callers}
        /\ contents[1].tableSlug = "s1"
        /\ contents[1].createdAt = 0

\* Two Updates with different value maps have both returned, the second having
\* read the record before the first wrote it.
C23_Witness ==
    /\ UpdatesDone = Callers
    /\ calls[1].req.values # calls[2].req.values
    /\ \A c \in Callers :
          calls[c].existingContent.values = (kName :> vX) @@ (kAge :> vX)

\* The keys of the stored value maps that begin with the reserved prefix.
StoredReservedKeys ==
    {k \in UNION {DOMAIN UnmarshalValues(contents[id].values) :
                      id \in DOMAIN contents} : FirstByte(k) = <<"_">>}

\* C24: in every reachable state no stored record's value map has a key that
\* begins with "_", also after a client has sent such a key in the value map
\* of a Create or an Update.
C24_NoStoredReservedKey == StoredReservedKeys = {}

\* The relation fields named name of the schema slug, if it exists.
RelationFieldsNamed(slug, name) ==
    IF slug \notin DOMAIN schemas THEN {}
    ELSE LET fields == UnmarshalFields(schemas[slug].fields)
         IN  {f \in {fields[i] : i \in 1..Len(fields)} :
                 f.name = name /\ f.dataType = "relation"}

\* list holds the value map of every record of table target, once per
\* record, and nothing else.
HoldsAllValueMapsOf(list, target) ==
    LET ids == {id \in DOMAIN contents : contents[id].tableSlug = target}
    IN  /\ Len(list) = Cardinality(ids)
        /\ \A id \in ids :
              LET v == UnmarshalValues(contents[id].values)
              IN  Cardinality({i \in 1..Len(list) : list[i] = v})
                    = Cardinality({j \in ids :
                                      UnmarshalValues(contents[j].values) = v})

\* C25: GetRelatedData answers with the value maps of all records of the
\* relation's target table when the table exists and has a relation field of
\* that name with a descriptor; when the table or the field does not exist,
\* the field is no relation field or has no descriptor, it answers NotFound.
C25_RelatedDataOrNotFound ==
    resp.op = "GetRelatedData" =>
        LET targetFields == RelationFieldsNamed(resp.req.tableSlug,
                                                resp.req.fieldName)
        IN  IF \E f \in targetFields : f.relationConfig.set
            THEN /\ resp.status = StatusOK
                 /\ \A f \in targetFields :
                       HoldsAllValueMapsOf(resp.body,
                                           f.relationConfig.relatedTable)
            ELSE resp.status = StatusNotFound

\* C26: ContentRepository.GetContents(tableSlug) returns all records of the
\* table: when the table holds N records the returned list has N elements.
C26_GetContentsReturnsAll ==
    (resp.op = "ContentRepository.GetContents"
       /\ resp.req.tableSlug \in DOMAIN schemas)
    => /\ resp.body.kind = "ok"
       /\ Len(resp.body.contents)
            = Cardinality({id \in DOMAIN contents :
                             contents[id].tableSlug = resp.req.tableSlug})

\* No timer is armed and no fetch is in flight.
Quiescent == ~view.timer.set /\ view.fetches = {}

\* The view shows the records a List of page p answers.
ShowsPage(p) ==
    \E r \in ContentHandler_GetContents(
                 schemas, contents, nextId, nextSchemaId, "s1",
                 getAll([Deps(view) EXCEPT !.currentPage = p])) :
        Fetched(r).ok /\ view.contents = Fetched(r).contents

\* C27: after the user selects a page p and gives no further input, the view
\* eventually is quiescent with currentPage = p and shows the records fetched
\* for page p; and the chain of effect runs and fetches ends: the view
\* eventually stays quiescent.
C27_SelectedPageIsShown ==
    /\ \A p \in 1..ViewPages : \A k \in 1..MaxInputs :
          (view.selected = p /\ view.inputs = k)
             ~> \/ view.inputs > k
                \/ Quiescent /\ view.currentPage = p /\ ShowsPage(p)
    /\ <>[]Quiescent

\* The Update of caller c returns in this step.
UpdateReturns(c) ==
    /\ calls[c].op = "UpdateContent"
    /\ calls[c].pc # "done"
    /\ calls'[c].pc = "done"

\* C28: an Update that reports success returns the stored record with the
\* new values, and an Update whose record does not exist when its write
\* executes reports NotFound, also when a Delete of the record or of its
\* schema runs between the Update's existence check and its write; no Update
\* crashes or answers success without a record.
C28_UpdateSucceedsOrNotFound ==
    [][\A c \in Callers :
          UpdateReturns(c) =>
            LET id == calls[c].req.id
            IN  /\ calls'[c].status \in {StatusOK, StatusNotFound}
                /\ id \notin DOMAIN contents
                      => calls'[c].status = StatusNotFound
                /\ calls'[c].status = StatusOK
                      => /\ id \in DOMAIN contents'
                         /\ calls'[c].body = scanToContent(id, contents'[id])
                         /\ calls'[c].body.values = calls[c].req.values]_vars

C30_ReadsAreReadOnly ==
    [][resp'.op \in {"GetContents", "GetRelatedData", "GetContent"} =>
         /\ schemas' = schemas
         /\ contents' = contents
         /\ (resp'.op = "GetContent" /\ resp'.status = StatusOK) =>
               /\ resp'.body.values
                    = UnmarshalValues(contents[resp'.req.id].values)
               /\ \A f \in RelationFieldsOf(resp'.body.tableSlug) :
                     RelatedKey(f.name) \notin DOMAIN resp'.body.values]_vars

\* A record was read for which the List attaches a derived key: it holds a
\* value of a relation field that a record of the target table matches.
C30_Witness ==
    /\ resp.op = "GetContent"
    /\ resp.status = StatusOK
    /\ \E f \in RelationFieldsOf(resp.body.tableSlug) :
          /\ f.name \in DOMAIN resp.body.values
          /\ TargetsOf(f, resp.body.values[f.name]) # {}

\* C3: validateContentAgainstSchema succeeds exactly when every required
\* field is a key of the map and every key is a field name or starts with
\* "_"; otherwise it returns an error naming a missing required field or an
\* unknown key; it never panics.
C3_ValidatorDecides ==
    resp.op = "validateContentAgainstSchema"
    => LET values == resp.req.values
           fields == resp.req.fields
           out == resp.body
       IN  /\ out.kind # "panic"
           /\ (out.kind = "ok")
                <=> (RequiredPresent(values, fields) /\ KeysKnown(values, fields))
           /\ out.kind = "missing"
                => \E i \in 1..Len(fields) :
                      /\ fields[i].required
                      /\ fields[i].name = out.name
                      /\ out.name \notin DOMAIN values
           /\ out.kind = "unknown"
                => /\ out.name \in DOMAIN values
                   /\ ~HasReservedPrefix(out.name)
                   /\ \A i \in 1..Len(fields) : fields[i].name # out.name

====
